---- MODULE Spec2Model ----
(***************************************************************************)
(* Quiz engine of the assistant bot: quiz repository (quizzes.json), the   *)
(* per-user progress store (quiz_state.json), the in-memory authoring      *)
(* wizard, the LLM judge with its exact-match fallback, and the dispatch   *)
(* of inbound messages and callback buttons to their handlers.             *)
(*                                                                         *)
(* Texts are sequences of one-character strings so that strip(), lower()   *)
(* and startswith() are computed, not assumed.                             *)
(***************************************************************************)
EXTENDS Integers, Sequences, FiniteSets, TLC

VARIABLES
    quizzes,      \* content of quizzes.json: list of quiz records
    quiz_state,   \* content of quiz_state.json: users map, key -> progress
    wizard,       \* _QUIZ_WIZARD_STATE: user id -> session or NoSession
    ev,           \* the inbound event handled by the last step (ctx)
    log,          \* effects of the last handler, in program order
    scen,         \* progress of the section-8 scenario (observer only)
    files,        \* the data directory: path -> chunks written to the file
    save,         \* the _save_* call in progress, chunk by chunk
    mem,          \* a structure handed to _save_* or returned by _load_*
    doc,          \* the JSON document the last _save_* serialized
    loop          \* the polling loop of main and the handlers it has called

vars == <<quizzes, quiz_state, wizard, ev, log, scen, files, save, mem, doc, loop>>

Null == "null"

(***************************************************************************)
(* Texts                                                                   *)
(***************************************************************************)
Whitespace == {" ", "\n", "\t"}

RECURSIVE LStrip(_)
LStrip(s) == IF s # <<>> /\ Head(s) \in Whitespace THEN LStrip(Tail(s)) ELSE s

RECURSIVE RStrip(_)
RStrip(s) ==
    IF s # <<>> /\ s[Len(s)] \in Whitespace
    THEN RStrip(SubSeq(s, 1, Len(s) - 1))
    ELSE s

\* str.strip()
Strip(s) == RStrip(LStrip(s))

LowerChar(c) ==
    CASE c = "P" -> "p"
      [] c = "T" -> "t"
      [] c = "F" -> "f"
      [] OTHER -> c

\* str.lower()
Lower(s) == [i \in 1..Len(s) |-> LowerChar(s[i])]

\* str.startswith(p)
StartsWith(s, p) == Len(s) >= Len(p) /\ SubSeq(s, 1, Len(p)) = p

T_4        == <<"4">>
T_5        == <<"5">>
T_Paris    == <<"P", "a", "r", "i", "s">>
T_paris    == <<"p", "a", "r", "i", "s">>
T_paris_sp == <<"p", "a", "r", "i", "s", " ">>
T_Paris_sp == <<" ", "P", "a", "r", "i", "s", "\n">>
T_empty    == <<>>
T_blank    == <<" ">>
Q_sum      == <<"2", "+", "2", "?">>
Q_cap      == <<"c", "a", "p", "?">>
Q_new      == <<" ", "n", "e", "w", "?">>

L_true     == <<"t", "r", "u", "e">>
L_false    == <<"f", "a", "l", "s", "e">>
L_True_nl  == <<"T", "r", "u", "e", "\n">>
L_False_sp == <<" ", "F", "a", "l", "s", "e">>
L_maybe    == <<"m", "a", "y", "b", "e">>
L_not_true == <<"n", "o", "t", " ", "t", "r", "u", "e">>

(***************************************************************************)
(* The judge (llm.py).  An LLM reply either raises (network error,         *)
(* timeout) or carries a content text and a token count.                   *)
(***************************************************************************)
LlmRaise == [raises |-> TRUE, content |-> T_empty, total_tokens |-> 0]
LlmReply(c, n) == [raises |-> FALSE, content |-> c, total_tokens |-> n]

ZeroUsage == 0

\* mutant: the fallback comparison folds case
_judge_folding_case(llm, reference_answer, student_answer) ==
    [total_tokens |-> IF llm.raises THEN ZeroUsage ELSE llm.total_tokens,
     is_correct |-> Lower(Strip(student_answer)) = Lower(Strip(reference_answer))]

_judge_quiz_answer(llm, reference_answer, student_answer) ==
    LET content == Lower(Strip(llm.content))
        fallback == [total_tokens |-> ZeroUsage,
                     is_correct |-> Strip(student_answer) = Strip(reference_answer)]
    IN  IF llm.raises THEN fallback
        ELSE IF StartsWith(content, L_true)
             THEN [total_tokens |-> llm.total_tokens, is_correct |-> TRUE]
        ELSE IF StartsWith(content, L_false)
             THEN [total_tokens |-> llm.total_tokens, is_correct |-> FALSE]
        ELSE fallback

(***************************************************************************)
(* Users and settings.  AdminUsers is settings["admin_users"].             *)
(***************************************************************************)
Users      == {1, 2, 3}
AdminUsers == {1, 2}

\* mutant: every known user passes the check
_is_admin_anyone(user_id) == user_id \in Users

_is_admin(user_id) == user_id \in AdminUsers

\* chat_id of the reply: the user in a private chat, the group otherwise
ChatOf(ctx) == IF ctx.chat_type = "private" THEN ctx.user_id ELSE 0

(***************************************************************************)
(* Effects a handler leaves behind, in program order.                      *)
(***************************************************************************)
\* mutant: the message carries no number
SendWithoutCount(to, msg, q, n) == [n |-> 0, to |-> to, msg |-> msg, q |-> q, k |-> "send"]

Send(to, msg, q, n) == [n |-> n, to |-> to, msg |-> msg, q |-> q, k |-> "send"]
Reply(ctx, msg)       == Send(ChatOf(ctx), msg, Null, 0)
ReplyQ(ctx, msg, q)   == Send(ChatOf(ctx), msg, q, 0)
Effect(k, msg)        == [n |-> 0, to |-> 0, msg |-> msg, q |-> Null, k |-> k]
\* the judge's return value: verdict and usage["total_tokens"]
JudgeEff(v) ==
    [n |-> v.total_tokens, to |-> 0,
     msg |-> IF v.is_correct THEN "true" ELSE "false", q |-> Null, k |-> "judge"]
TokenLog              == Effect("token_log", "quiz_judge")
SaveStateEff(ok)      == Effect("save_state", IF ok THEN "ok" ELSE "fail")
SaveQuizzesEff(ok)    == Effect("save_quizzes", IF ok THEN "ok" ELSE "fail")

\* what a handler returns to the step: the three stores and its effects
Res(qs, st, wz, lg) == [quizzes |-> qs, quiz_state |-> st, wizard |-> wz, log |-> lg]

(***************************************************************************)
(* data/quiz.py                                                            *)
(***************************************************************************)
EmptyMap == [x \in {} |-> Null]

First(S) == IF S = {} THEN 0 ELSE CHOOSE i \in S : \A j \in S : i <= j

\* bool(q.get(key)) of a flag: a missing key reads None, which is falsy
Flag(q, key) == key \in DOMAIN q /\ q[key]

\* _save_quizzes: every record rewritten to the canonical field set
NormalizeQuiz(q) ==
    [id |-> q.id, question |-> q.question, answer |-> q.answer,
     processed |-> Flag(q, "processed"), hidden |-> Flag(q, "hidden")]

_save_quizzes(ctx, qs) ==
    IF ctx.disk_ok THEN [i \in 1..Len(qs) |-> NormalizeQuiz(qs[i])] ELSE quizzes

_load_quizzes == quizzes

\* mutant: the hidden flag is ignored
_is_hidden_never(q) == FALSE

_is_hidden_quiz(q) == Flag(q, "hidden")

\* mutant: the lookup finds nothing
FindQuizNever(qs, id) == 0

\* index of the first quiz with this id, 0 when there is none
FindQuiz(qs, id) == First({i \in 1..Len(qs) : qs[i].id = id})

QuizIds(qs) == {qs[i].id : i \in 1..Len(qs)}

\* mutant: the candidate list is not filtered
VisibleAll(qs) == qs

\* [q for q in quizzes if not _is_hidden_quiz(q)]
Visible(qs) == SelectSeq(qs, LAMBDA q : ~_is_hidden_quiz(q))

_load_quiz_state == quiz_state

EmptyUser == [active_quiz_id |-> Null, results |-> EmptyMap, answers |-> EmptyMap]

\* the users map with the entry of user_id created when absent
_get_user_quiz_state(state, user_id) ==
    IF user_id \in DOMAIN state THEN state ELSE (user_id :> EmptyUser) @@ state

NormalizeUser(u) ==
    [active_quiz_id |-> u.active_quiz_id,
     results |-> [q \in DOMAIN u.results |->
                    [correct |-> u.results[q].correct,
                     attempts |-> u.results[q].attempts]],
     answers |-> [q \in DOMAIN u.answers |->
                    [i \in 1..Len(u.answers[q]) |->
                        [answer |-> u.answers[q][i].answer,
                         correct |-> u.answers[q][i].correct]]]]

_save_quiz_state(ctx, state) ==
    IF ctx.disk_ok THEN [u \in DOMAIN state |-> NormalizeUser(state[u])] ELSE quiz_state

\* mutant: only wrong answers are kept
_append_user_answer_wrong_only(user_state, quiz_id, answer, is_correct) ==
    LET arr == IF quiz_id \in DOMAIN user_state.answers
               THEN user_state.answers[quiz_id] ELSE <<>>
        entry == [answer |-> answer, correct |-> is_correct]
    IN  IF is_correct THEN user_state
        ELSE [user_state EXCEPT !.answers = (quiz_id :> Append(arr, entry)) @@ @]

\* _append_user_answer: one entry at the end of answers[quiz_id]
_append_user_answer(user_state, quiz_id, answer, is_correct) ==
    LET arr == IF quiz_id \in DOMAIN user_state.answers
               THEN user_state.answers[quiz_id] ELSE <<>>
        entry == [answer |-> answer, correct |-> is_correct]
    IN  [user_state EXCEPT !.answers = (quiz_id :> Append(arr, entry)) @@ @]

IsCorrect(results, qid) == qid \in DOMAIN results /\ results[qid].correct

\* mutant: the previous count is not read back
AttemptsForgotten(results, qid) == 0

\* int((prev or {}).get("attempts") or 0)
Attempts(results, qid) == IF qid \in DOMAIN results THEN results[qid].attempts ELSE 0

(***************************************************************************)
(* handlers/quiz.py: progression                                           *)
(***************************************************************************)
\* mutant: the last unsolved quiz is taken
NextUnsolvedLast(qs, results) ==
    LET open == {i \in 1..Len(qs) : ~IsCorrect(results, qs[i].id)}
    IN  IF open = {} THEN 0 ELSE CHOOSE i \in open : \A j \in open : i >= j

\* first quiz of qs, in list order, that the user has not solved; 0 if none
NextUnsolved(qs, results) ==
    First({i \in 1..Len(qs) : ~IsCorrect(results, qs[i].id)})

\* mutant: the acknowledgment is sent before the progress store is saved
GradeAnswerAckFirst(ctx, state, quiz) ==
    LET uid == ctx.user_id
        all_quizzes == _load_quizzes
        user_state == state[uid]
        correct_answer == Strip(quiz.answer)
        user_answer == Strip(Strip(ctx.text))
        qkey == user_state.active_quiz_id
        attempts_now == Attempts(user_state.results, qkey) + 1
        verdict == _judge_quiz_answer(ctx.llm, correct_answer, user_answer)
        is_correct == verdict.is_correct
        judged == <<JudgeEff(verdict)>> \o
                  (IF verdict.total_tokens > 0 THEN <<TokenLog>> ELSE <<>>)
        us1 == _append_user_answer(user_state, qkey, user_answer, is_correct)
        us2 == [us1 EXCEPT !.results =
                   (qkey :> [correct |-> is_correct, attempts |-> attempts_now]) @@ @]
        visible == Visible(all_quizzes)
        nxt == NextUnsolved(visible, us2.results)
        next_qid == IF nxt = 0 THEN Null ELSE visible[nxt].id
        us3 == [us2 EXCEPT !.active_quiz_id = next_qid]
    IN  IF ~is_correct
        THEN Res(quizzes,
                 _save_quiz_state(ctx, [state EXCEPT ![uid] = us2]),
                 wizard,
                 judged \o <<SaveStateEff(ctx.disk_ok),
                             Send(ChatOf(ctx), "incorrect", qkey, attempts_now)>>)
        ELSE Res(quizzes,
                 _save_quiz_state(ctx, [state EXCEPT ![uid] = us3]),
                 wizard,
                 judged \o <<Reply(ctx, "correct"), SaveStateEff(ctx.disk_ok),
                             IF nxt = 0 THEN Reply(ctx, "all_complete")
                             ELSE ReplyQ(ctx, "question", next_qid)>>)

\* mutant: a correct answer leaves the answered quiz active
GradeAnswerStays(ctx, state, quiz) ==
    LET uid == ctx.user_id
        user_state == state[uid]
        user_answer == Strip(Strip(ctx.text))
        qkey == user_state.active_quiz_id
        attempts_now == Attempts(user_state.results, qkey) + 1
        verdict == _judge_quiz_answer(ctx.llm, Strip(quiz.answer), user_answer)
        is_correct == verdict.is_correct
        judged == <<JudgeEff(verdict)>> \o
                  (IF verdict.total_tokens > 0 THEN <<TokenLog>> ELSE <<>>)
        us1 == _append_user_answer(user_state, qkey, user_answer, is_correct)
        us2 == [us1 EXCEPT !.results =
                   (qkey :> [correct |-> is_correct, attempts |-> attempts_now]) @@ @]
    IN  Res(quizzes,
            _save_quiz_state(ctx, [state EXCEPT ![uid] = us2]),
            wizard,
            judged \o <<SaveStateEff(ctx.disk_ok),
                        IF is_correct THEN Reply(ctx, "correct")
                        ELSE Send(ChatOf(ctx), "incorrect", qkey, attempts_now)>>)

\* the grading branch of handle_quiz_answer (quiz found and gradable): the
\* entry appended, the result written, and after a correct answer the next
\* unsolved quiz made active
GradeAnswer(ctx, state, quiz) ==
    LET uid == ctx.user_id
        all_quizzes == _load_quizzes
        user_state == state[uid]
        correct_answer == Strip(quiz.answer)
        user_answer == Strip(Strip(ctx.text))
        qkey == user_state.active_quiz_id
        attempts_now == Attempts(user_state.results, qkey) + 1
        verdict == _judge_quiz_answer(ctx.llm, correct_answer, user_answer)
        is_correct == verdict.is_correct
        judged == <<JudgeEff(verdict)>> \o
                  (IF verdict.total_tokens > 0 THEN <<TokenLog>> ELSE <<>>)
        us1 == _append_user_answer(user_state, qkey, user_answer, is_correct)
        us2 == [us1 EXCEPT !.results =
                   (qkey :> [correct |-> is_correct, attempts |-> attempts_now]) @@ @]
        visible == Visible(all_quizzes)
        nxt == NextUnsolved(visible, us2.results)
        next_qid == IF nxt = 0 THEN Null ELSE visible[nxt].id
        us3 == [us2 EXCEPT !.active_quiz_id = next_qid]
    IN  IF ~is_correct
        THEN Res(quizzes,
                 _save_quiz_state(ctx, [state EXCEPT ![uid] = us2]),
                 wizard,
                 judged \o <<SaveStateEff(ctx.disk_ok),
                             Send(ChatOf(ctx), "incorrect", qkey, attempts_now)>>)
        ELSE Res(quizzes,
                 _save_quiz_state(ctx, [state EXCEPT ![uid] = us3]),
                 wizard,
                 judged \o <<SaveStateEff(ctx.disk_ok), Reply(ctx, "correct"),
                             IF nxt = 0 THEN Reply(ctx, "all_complete")
                             ELSE ReplyQ(ctx, "question", next_qid)>>)

\* mutant: a hidden active quiz is graded for everybody
handle_quiz_answer_hidden_graded(ctx) ==
    LET uid == ctx.user_id
        state == _get_user_quiz_state(_load_quiz_state, uid)
        active_quiz_id == state[uid].active_quiz_id
        all_quizzes == _load_quizzes
        qi == FindQuiz(all_quizzes, active_quiz_id)
        cleared == [state EXCEPT ![uid].active_quiz_id = Null]
    IN  IF active_quiz_id = Null
        THEN Res(quizzes, quiz_state, wizard, <<>>)
        ELSE IF qi = 0
        THEN Res(quizzes, _save_quiz_state(ctx, cleared), wizard,
                 <<SaveStateEff(ctx.disk_ok)>>)
        ELSE GradeAnswer(ctx, state, all_quizzes[qi])

handle_quiz_answer(ctx) ==
    LET uid == ctx.user_id
        state == _get_user_quiz_state(_load_quiz_state, uid)
        active_quiz_id == state[uid].active_quiz_id
        all_quizzes == _load_quizzes
        qi == FindQuiz(all_quizzes, active_quiz_id)
        cleared == [state EXCEPT ![uid].active_quiz_id = Null]
    IN  IF active_quiz_id = Null
        THEN Res(quizzes, quiz_state, wizard, <<>>)
        ELSE IF qi = 0 \/ (_is_hidden_quiz(all_quizzes[qi]) /\ ~_is_admin(uid))
        THEN Res(quizzes, _save_quiz_state(ctx, cleared), wizard,
                 <<SaveStateEff(ctx.disk_ok)>>)
        ELSE GradeAnswer(ctx, state, all_quizzes[qi])

\* mutant: the first pass does not leave the active quiz out
handle_skip_from_head(ctx) ==
    LET uid == ctx.user_id
        state == _get_user_quiz_state(_load_quiz_state, uid)
        active_quiz_id == state[uid].active_quiz_id
        visible == Visible(_load_quizzes)
        results == state[uid].results
        nxt == NextUnsolved(visible, results)
        qid == visible[nxt].id
    IN  IF ctx.chat_type # "private"
        THEN Res(quizzes, quiz_state, wizard, <<Reply(ctx, "private_only")>>)
        ELSE IF active_quiz_id = Null \/ visible = <<>> \/ nxt = 0
        THEN Res(quizzes, quiz_state, wizard, <<>>)
        ELSE Res(quizzes,
                 _save_quiz_state(ctx, [state EXCEPT ![uid].active_quiz_id = qid]),
                 wizard,
                 <<SaveStateEff(ctx.disk_ok), ReplyQ(ctx, "question", qid)>>)

\* mutant: a missing active quiz does not stop the search
handle_skip_without_active(ctx) ==
    LET uid == ctx.user_id
        state == _get_user_quiz_state(_load_quiz_state, uid)
        active_quiz_id == state[uid].active_quiz_id
        visible == Visible(_load_quizzes)
        results == state[uid].results
        pass1 == First({i \in 1..Len(visible) :
                          /\ visible[i].id # active_quiz_id
                          /\ ~IsCorrect(results, visible[i].id)})
        pass2 == NextUnsolved(visible, results)
        nxt == IF pass1 # 0 THEN pass1 ELSE pass2
        qid == visible[nxt].id
    IN  IF ctx.chat_type # "private"
        THEN Res(quizzes, quiz_state, wizard, <<Reply(ctx, "private_only")>>)
        ELSE IF visible = <<>> \/ nxt = 0
        THEN Res(quizzes, quiz_state, wizard, <<>>)
        ELSE Res(quizzes,
                 _save_quiz_state(ctx, [state EXCEPT ![uid].active_quiz_id = qid]),
                 wizard,
                 <<SaveStateEff(ctx.disk_ok), ReplyQ(ctx, "question", qid)>>)

\* mutant: the search starts behind the active quiz and wraps around
handle_skip_round_robin(ctx) ==
    LET uid == ctx.user_id
        state == _get_user_quiz_state(_load_quiz_state, uid)
        active_quiz_id == state[uid].active_quiz_id
        visible == Visible(_load_quizzes)
        results == state[uid].results
        at == FindQuiz(visible, active_quiz_id)
        pass1 == First({i \in 1..Len(visible) :
                          /\ i > at
                          /\ ~IsCorrect(results, visible[i].id)})
        pass2 == NextUnsolved(visible, results)
        nxt == IF pass1 # 0 THEN pass1 ELSE pass2
        qid == visible[nxt].id
    IN  IF ctx.chat_type # "private"
        THEN Res(quizzes, quiz_state, wizard, <<Reply(ctx, "private_only")>>)
        ELSE IF active_quiz_id = Null \/ visible = <<>> \/ nxt = 0
        THEN Res(quizzes, quiz_state, wizard, <<>>)
        ELSE Res(quizzes,
                 _save_quiz_state(ctx, [state EXCEPT ![uid].active_quiz_id = qid]),
                 wizard,
                 <<SaveStateEff(ctx.disk_ok), ReplyQ(ctx, "question", qid)>>)

\* handle_skip: the first visible unsolved quiz other than the active one,
\* or else the first visible unsolved quiz
handle_skip(ctx) ==
    LET uid == ctx.user_id
        state == _get_user_quiz_state(_load_quiz_state, uid)
        active_quiz_id == state[uid].active_quiz_id
        visible == Visible(_load_quizzes)
        results == state[uid].results
        pass1 == First({i \in 1..Len(visible) :
                          /\ visible[i].id # active_quiz_id
                          /\ ~IsCorrect(results, visible[i].id)})
        pass2 == NextUnsolved(visible, results)
        nxt == IF pass1 # 0 THEN pass1 ELSE pass2
        qid == visible[nxt].id
    IN  IF ctx.chat_type # "private"
        THEN Res(quizzes, quiz_state, wizard, <<Reply(ctx, "private_only")>>)
        ELSE IF active_quiz_id = Null \/ visible = <<>> \/ nxt = 0
        THEN Res(quizzes, quiz_state, wizard, <<>>)
        ELSE Res(quizzes,
                 _save_quiz_state(ctx, [state EXCEPT ![uid].active_quiz_id = qid]),
                 wizard,
                 <<SaveStateEff(ctx.disk_ok), ReplyQ(ctx, "question", qid)>>)

\* mutant: /quiz moves on from the active quiz the way /skip does
handle_quiz_as_skip(ctx) == handle_skip(ctx)

handle_quiz(ctx) ==
    LET uid == ctx.user_id
        visible == Visible(_load_quizzes)
        state == _get_user_quiz_state(_load_quiz_state, uid)
        active_quiz_id == state[uid].active_quiz_id
        results == state[uid].results
        nxt == NextUnsolved(visible, results)
        qid == visible[nxt].id
    IN  IF ctx.chat_type # "private"
        THEN Res(quizzes, quiz_state, wizard, <<Reply(ctx, "private_only")>>)
        ELSE IF visible = <<>>
        THEN Res(quizzes, quiz_state, wizard, <<Reply(ctx, "no_quizzes")>>)
        ELSE IF active_quiz_id # Null /\ FindQuiz(visible, active_quiz_id) # 0
        THEN Res(quizzes, quiz_state, wizard,
                 <<ReplyQ(ctx, "in_progress", active_quiz_id)>>)
        ELSE IF nxt = 0
        THEN Res(quizzes, quiz_state, wizard, <<Reply(ctx, "all_complete")>>)
        ELSE Res(quizzes,
                 _save_quiz_state(ctx, [state EXCEPT ![uid].active_quiz_id = qid]),
                 wizard,
                 <<SaveStateEff(ctx.disk_ok), ReplyQ(ctx, "question", qid)>>)

\* mutant: the id is looked up among the visible quizzes only
handle_quiz_ask_visible_only(ctx) ==
    LET uid == ctx.user_id
        quiz_id == ctx.args
        state == _get_user_quiz_state(_load_quiz_state, uid)
    IN  IF ctx.chat_type # "private"
        THEN Res(quizzes, quiz_state, wizard, <<Reply(ctx, "private_only")>>)
        ELSE IF ~_is_admin(uid)
        THEN Res(quizzes, quiz_state, wizard, <<Reply(ctx, "admin_only")>>)
        ELSE IF quiz_id = Null
        THEN Res(quizzes, quiz_state, wizard, <<Reply(ctx, "usage")>>)
        ELSE IF FindQuiz(Visible(_load_quizzes), quiz_id) = 0
        THEN Res(quizzes, quiz_state, wizard, <<ReplyQ(ctx, "not_found", quiz_id)>>)
        ELSE Res(quizzes,
                 _save_quiz_state(ctx, [state EXCEPT ![uid].active_quiz_id = quiz_id]),
                 wizard,
                 <<SaveStateEff(ctx.disk_ok), ReplyQ(ctx, "question", quiz_id)>>)

handle_quiz_ask(ctx) ==
    LET uid == ctx.user_id
        quiz_id == ctx.args
        state == _get_user_quiz_state(_load_quiz_state, uid)
    IN  IF ctx.chat_type # "private"
        THEN Res(quizzes, quiz_state, wizard, <<Reply(ctx, "private_only")>>)
        ELSE IF ~_is_admin(uid)
        THEN Res(quizzes, quiz_state, wizard, <<Reply(ctx, "admin_only")>>)
        ELSE IF quiz_id = Null
        THEN Res(quizzes, quiz_state, wizard, <<Reply(ctx, "usage")>>)
        ELSE IF FindQuiz(_load_quizzes, quiz_id) = 0
        THEN Res(quizzes, quiz_state, wizard, <<ReplyQ(ctx, "not_found", quiz_id)>>)
        ELSE Res(quizzes,
                 _save_quiz_state(ctx, [state EXCEPT ![uid].active_quiz_id = quiz_id]),
                 wizard,
                 <<SaveStateEff(ctx.disk_ok), ReplyQ(ctx, "question", quiz_id)>>)

(***************************************************************************)
(* handlers/quiz.py: authoring wizard, /quiz_create, /quiz_delete          *)
(***************************************************************************)
Session(stage, quiz_id, mode, question) ==
    [question |-> question, quiz_id |-> quiz_id, stage |-> stage, mode |-> mode]

NoSession == Session("none", Null, "none", <<>>)

\* user_id in _QUIZ_WIZARD_STATE
HasSession(user_id) == wizard[user_id].stage # "none"

\* mutant: the session is left in place
PopSessionKept(wz, user_id) == wz

\* _QUIZ_WIZARD_STATE.pop(user_id, None)
PopSession(wz, user_id) == [wz EXCEPT ![user_id] = NoSession]

\* mutant: the edited quiz is stored as a new one, not yet sent and shown
WizardEditCommitFresh(ctx, sess, answer) ==
    LET uid == ctx.user_id
        loaded == _load_quizzes
        ti == FindQuiz(loaded, sess.quiz_id)
        edited == [loaded EXCEPT ![ti].question = Strip(sess.question),
                                 ![ti].answer = answer,
                                 ![ti].processed = FALSE,
                                 ![ti].hidden = FALSE]
    IN  IF ti = 0
        THEN Res(quizzes, quiz_state, PopSession(wizard, uid),
                 <<ReplyQ(ctx, "wizard_edit_aborted", sess.quiz_id)>>)
        ELSE Res(_save_quizzes(ctx, edited), quiz_state, PopSession(wizard, uid),
                 <<SaveQuizzesEff(TRUE), ReplyQ(ctx, "wizard_updated", sess.quiz_id)>>)

\* mutant: a quiz that is gone is written again
WizardEditCommitUpsert(ctx, sess, answer) ==
    LET uid == ctx.user_id
        loaded == _load_quizzes
        ti == FindQuiz(loaded, sess.quiz_id)
        edited == [loaded EXCEPT ![ti].question = Strip(sess.question),
                                 ![ti].answer = answer]
        again == Append(loaded, [id |-> sess.quiz_id,
                                 question |-> Strip(sess.question),
                                 answer |-> answer, processed |-> FALSE])
    IN  Res(_save_quizzes(ctx, IF ti = 0 THEN again ELSE edited), quiz_state,
            PopSession(wizard, uid),
            <<SaveQuizzesEff(TRUE), ReplyQ(ctx, "wizard_updated", sess.quiz_id)>>)

\* the awaiting_answer step with mode=edit and a non-empty answer
WizardEditCommit(ctx, sess, answer) ==
    LET uid == ctx.user_id
        loaded == _load_quizzes
        ti == FindQuiz(loaded, sess.quiz_id)
        edited == [loaded EXCEPT ![ti].question = Strip(sess.question),
                                 ![ti].answer = answer]
    IN  IF ti = 0
        THEN Res(quizzes, quiz_state, PopSession(wizard, uid),
                 <<ReplyQ(ctx, "wizard_edit_aborted", sess.quiz_id)>>)
        ELSE IF ~ctx.disk_ok
        THEN Res(_save_quizzes(ctx, edited), quiz_state, wizard,
                 <<SaveQuizzesEff(FALSE), Reply(ctx, "save_failed")>>)
        ELSE Res(_save_quizzes(ctx, edited), quiz_state, PopSession(wizard, uid),
                 <<SaveQuizzesEff(TRUE), ReplyQ(ctx, "wizard_updated", sess.quiz_id)>>)

\* mutant: the commit does not look the id up again
WizardCreateCommitUnchecked(ctx, sess, answer) ==
    Res(_save_quizzes(ctx, Append(_load_quizzes,
                                  [id |-> sess.quiz_id, question |-> Strip(sess.question),
                                   answer |-> answer, processed |-> FALSE])),
        quiz_state, PopSession(wizard, ctx.user_id),
        <<SaveQuizzesEff(TRUE), ReplyQ(ctx, "wizard_saved", sess.quiz_id)>>)

\* mutant: the new quiz is put in front of the list
WizardCreateCommitAtHead(ctx, sess, answer) ==
    LET uid == ctx.user_id
        loaded == _load_quizzes
        quiz == [id |-> sess.quiz_id, question |-> Strip(sess.question),
                 answer |-> answer, processed |-> FALSE]
    IN  IF sess.quiz_id \in QuizIds(loaded)
        THEN Res(quizzes, quiz_state, PopSession(wizard, uid),
                 <<ReplyQ(ctx, "wizard_create_aborted", sess.quiz_id)>>)
        ELSE Res(_save_quizzes(ctx, <<quiz>> \o loaded), quiz_state,
                 PopSession(wizard, uid),
                 <<SaveQuizzesEff(TRUE), ReplyQ(ctx, "wizard_saved", sess.quiz_id)>>)

\* mutant: a failed write ends the session
WizardCreateCommitGivesUp(ctx, sess, answer) ==
    LET uid == ctx.user_id
        loaded == _load_quizzes
        quiz == [id |-> sess.quiz_id, question |-> Strip(sess.question),
                 answer |-> answer, processed |-> FALSE]
        appended == Append(loaded, quiz)
    IN  IF sess.quiz_id \in QuizIds(loaded)
        THEN Res(quizzes, quiz_state, PopSession(wizard, uid),
                 <<ReplyQ(ctx, "wizard_create_aborted", sess.quiz_id)>>)
        ELSE IF ~ctx.disk_ok
        THEN Res(_save_quizzes(ctx, appended), quiz_state, PopSession(wizard, uid),
                 <<SaveQuizzesEff(FALSE), Reply(ctx, "save_failed")>>)
        ELSE Res(_save_quizzes(ctx, appended), quiz_state, PopSession(wizard, uid),
                 <<SaveQuizzesEff(TRUE), ReplyQ(ctx, "wizard_saved", sess.quiz_id)>>)

\* the awaiting_answer step with mode=create and a non-empty answer
WizardCreateCommit(ctx, sess, answer) ==
    LET uid == ctx.user_id
        loaded == _load_quizzes
        quiz == [id |-> sess.quiz_id, question |-> Strip(sess.question),
                 answer |-> answer, processed |-> FALSE]
        appended == Append(loaded, quiz)
    IN  IF sess.quiz_id \in QuizIds(loaded)
        THEN Res(quizzes, quiz_state, PopSession(wizard, uid),
                 <<ReplyQ(ctx, "wizard_create_aborted", sess.quiz_id)>>)
        ELSE IF ~ctx.disk_ok
        THEN Res(_save_quizzes(ctx, appended), quiz_state, wizard,
                 <<SaveQuizzesEff(FALSE), Reply(ctx, "save_failed")>>)
        ELSE Res(_save_quizzes(ctx, appended), quiz_state, PopSession(wizard, uid),
                 <<SaveQuizzesEff(TRUE), ReplyQ(ctx, "wizard_saved", sess.quiz_id)>>)

\* mutant: the question is staged as it was typed
handle_quiz_wizard_untrimmed(ctx) ==
    LET uid == ctx.user_id
        sess == wizard[uid]
        text == Strip(Strip(ctx.text))
    IN  IF sess.stage = "await_question"
        THEN IF text = <<>>
             THEN Res(quizzes, quiz_state, wizard, <<Reply(ctx, "wizard_need_question")>>)
             ELSE Res(quizzes, quiz_state,
                      [wizard EXCEPT ![uid].question = ctx.text,
                                     ![uid].stage = "await_answer"],
                      <<ReplyQ(ctx, "wizard_ask_answer", sess.quiz_id)>>)
        ELSE IF sess.stage = "await_answer"
        THEN IF text = <<>>
             THEN Res(quizzes, quiz_state, wizard, <<Reply(ctx, "wizard_need_answer")>>)
             ELSE IF sess.mode = "edit"
                  THEN WizardEditCommit(ctx, sess, text)
                  ELSE WizardCreateCommit(ctx, sess, text)
        ELSE Res(quizzes, quiz_state, wizard, <<>>)

\* handle_quiz_wizard: one bare text of an admin who has a session
handle_quiz_wizard(ctx) ==
    LET uid == ctx.user_id
        sess == wizard[uid]
        text == Strip(Strip(ctx.text))
    IN  IF sess.stage = "await_question"
        THEN IF text = <<>>
             THEN Res(quizzes, quiz_state, wizard, <<Reply(ctx, "wizard_need_question")>>)
             ELSE Res(quizzes, quiz_state,
                      [wizard EXCEPT ![uid].question = text,
                                     ![uid].stage = "await_answer"],
                      <<ReplyQ(ctx, "wizard_ask_answer", sess.quiz_id)>>)
        ELSE IF sess.stage = "await_answer"
        THEN IF text = <<>>
             THEN Res(quizzes, quiz_state, wizard, <<Reply(ctx, "wizard_need_answer")>>)
             ELSE IF sess.mode = "edit"
                  THEN WizardEditCommit(ctx, sess, text)
                  ELSE WizardCreateCommit(ctx, sess, text)
        ELSE Res(quizzes, quiz_state, wizard, <<>>)

\* mutant: an admin who has a session keeps it
handle_quiz_create_keeps_session(ctx) ==
    LET uid == ctx.user_id
        quiz_id == ctx.args
    IN  IF ctx.chat_type # "private"
        THEN Res(quizzes, quiz_state, wizard, <<Reply(ctx, "private_only")>>)
        ELSE IF ~_is_admin(uid)
        THEN Res(quizzes, quiz_state, wizard, <<Reply(ctx, "admin_only")>>)
        ELSE IF quiz_id = Null
        THEN Res(quizzes, quiz_state, wizard, <<Reply(ctx, "usage")>>)
        ELSE IF quiz_id \in QuizIds(_load_quizzes)
        THEN Res(quizzes, quiz_state, wizard, <<ReplyQ(ctx, "create_exists", quiz_id)>>)
        ELSE IF HasSession(uid)
        THEN Res(quizzes, quiz_state, wizard, <<ReplyQ(ctx, "create_started", quiz_id)>>)
        ELSE Res(quizzes, quiz_state,
                 [wizard EXCEPT ![uid] =
                     Session("await_question", quiz_id, "create", <<>>)],
                 <<ReplyQ(ctx, "create_started", quiz_id)>>)

handle_quiz_create(ctx) ==
    LET uid == ctx.user_id
        quiz_id == ctx.args
    IN  IF ctx.chat_type # "private"
        THEN Res(quizzes, quiz_state, wizard, <<Reply(ctx, "private_only")>>)
        ELSE IF ~_is_admin(uid)
        THEN Res(quizzes, quiz_state, wizard, <<Reply(ctx, "admin_only")>>)
        ELSE IF quiz_id = Null
        THEN Res(quizzes, quiz_state, wizard, <<Reply(ctx, "usage")>>)
        ELSE IF quiz_id \in QuizIds(_load_quizzes)
        THEN Res(quizzes, quiz_state, wizard, <<ReplyQ(ctx, "create_exists", quiz_id)>>)
        ELSE Res(quizzes, quiz_state,
                 [wizard EXCEPT ![uid] =
                     Session("await_question", quiz_id, "create", <<>>)],
                 <<ReplyQ(ctx, "create_started", quiz_id)>>)

handle_quiz_delete(ctx) ==
    LET uid == ctx.user_id
        quiz_id == ctx.args
        loaded == _load_quizzes
        kept == SelectSeq(loaded, LAMBDA q : q.id # quiz_id)
    IN  IF ~_is_admin(uid)
        THEN Res(quizzes, quiz_state, wizard, <<Reply(ctx, "admin_only")>>)
        ELSE IF quiz_id = Null
        THEN Res(quizzes, quiz_state, wizard, <<Reply(ctx, "usage")>>)
        ELSE IF Len(kept) = Len(loaded)
        THEN Res(quizzes, quiz_state, wizard, <<ReplyQ(ctx, "not_found", quiz_id)>>)
        ELSE IF ~ctx.disk_ok
        THEN Res(_save_quizzes(ctx, kept), quiz_state, wizard,
                 <<SaveQuizzesEff(FALSE), Reply(ctx, "save_failed")>>)
        ELSE Res(_save_quizzes(ctx, kept), quiz_state,
                 IF wizard[uid].quiz_id = quiz_id THEN PopSession(wizard, uid) ELSE wizard,
                 <<SaveQuizzesEff(TRUE), ReplyQ(ctx, "deleted", quiz_id)>>)

\* one plain message with its buttons per quiz of the repository
handle_quiz_list(ctx) ==
    LET loaded == _load_quizzes
    IN  IF ~_is_admin(ctx.user_id)
        THEN Res(quizzes, quiz_state, wizard, <<Reply(ctx, "admin_only")>>)
        ELSE IF loaded = <<>>
        THEN Res(quizzes, quiz_state, wizard, <<Reply(ctx, "list_empty")>>)
        ELSE Res(quizzes, quiz_state, wizard,
                 [i \in 1..Len(loaded) |-> ReplyQ(ctx, "list_item", loaded[i].id)])

\* one line of the report text: the figure n under the heading what
StatLine(ctx, what, q, n) ==
    [n |-> n, to |-> ChatOf(ctx), msg |-> what, q |-> q, k |-> "stat_line"]

\* the users of the progress store that the report counts: all of them, or,
\* with course_chat_id configured, those get_chat_member reports in the course
StudentUserIds(ctx, state) ==
    {u \in DOMAIN state : u > 0 /\ (ctx.course_chat => u \in ctx.in_course_users)}

\* the pairs (user, position in quiz_ids) at which the loop finds correct
CorrectAt(state, students, quiz_ids) ==
    {p \in students \X (1..Len(quiz_ids)) : IsCorrect(state[p[1]].results, quiz_ids[p[2]])}

\* mutant: "passed all" looks at the visible quizzes only
PassedAllVisible(state, students, loaded) ==
    {u \in students :
        \A i \in 1..Len(loaded) :
            _is_hidden_quiz(loaded[i]) \/ IsCorrect(state[u].results, loaded[i].id)}

\* users with all_correct left true by the loop over quiz_ids
PassedAll(state, students, loaded) ==
    {u \in students :
        \A i \in 1..Len(loaded) : IsCorrect(state[u].results, loaded[i].id)}

\* the report: its lines in order, then the one message that carries them
handle_quiz_admin_stat(ctx) ==
    LET loaded == _load_quizzes
        state == _load_quiz_state
        student_user_ids == StudentUserIds(ctx, state)
        quiz_ids == [i \in 1..Len(loaded) |-> loaded[i].id]
        hits == CorrectAt(state, student_user_ids, quiz_ids)
        passed_any == {u \in student_user_ids : \E p \in hits : p[1] = u}
        passed_all == PassedAll(state, student_user_ids, loaded)
        lines == << StatLine(ctx, "counted", Null, Cardinality(student_user_ids)),
                    StatLine(ctx, "passed_any", Null, Cardinality(passed_any)),
                    StatLine(ctx, "passed_all", Null, Cardinality(passed_all)) >>
                 \o [i \in 1..Len(quiz_ids) |->
                        StatLine(ctx,
                                 IF _is_hidden_quiz(loaded[i]) THEN "solved_hidden"
                                                               ELSE "solved",
                                 quiz_ids[i],
                                 Cardinality({p \in hits : quiz_ids[p[2]] = quiz_ids[i]}))]
    IN  IF ~_is_admin(ctx.user_id)
        THEN Res(quizzes, quiz_state, wizard, <<Reply(ctx, "admin_only")>>)
        ELSE IF loaded = <<>>
        THEN Res(quizzes, quiz_state, wizard, <<Reply(ctx, "no_quizzes")>>)
        ELSE IF DOMAIN state = {}
        THEN Res(quizzes, quiz_state, wizard, <<Reply(ctx, "stat_empty")>>)
        ELSE IF student_user_ids = {}
        THEN Res(quizzes, quiz_state, wizard, <<Reply(ctx, "stat_no_students")>>)
        ELSE Res(quizzes, quiz_state, wizard,
                 lines \o <<Send(ChatOf(ctx), "admin_stat", Null, Cardinality(passed_any))>>)

(***************************************************************************)
(* callback_handler.py: the inline buttons of /quiz_list                   *)
(***************************************************************************)
AnswerCb(msg) == Effect("answer_callback", msg)
EditMessage   == Effect("edit_message", "status")

RECURSIVE Sorted(_)
\* sorted(S) of a set of user ids
Sorted(S) == IF S = {} THEN <<>> ELSE <<First(S)>> \o Sorted(S \ {First(S)})

\* mutant: every target gets the quiz as active quiz, reached or not
BroadcastToAllTargets(ctx, targets, quiz_id) ==
    LET order == Sorted(targets)
        sent == {u \in targets : u \in ctx.delivered}
        sends == [i \in 1..Len(order) |->
                    Send(order[i],
                         IF order[i] \in ctx.delivered THEN "broadcast" ELSE "broadcast_failed",
                         quiz_id, 0)]
        state == _load_quiz_state
        users == (DOMAIN state) \cup targets
        updated == [u \in users |->
                      IF u \in targets
                      THEN [_get_user_quiz_state(state, u)[u]
                               EXCEPT !.active_quiz_id = quiz_id]
                      ELSE state[u]]
    IN  [sends |-> sends, state |-> updated, failed |-> targets \ sent]

\* the send loop of a broadcast followed by the active_quiz_id updates
Broadcast(ctx, targets, quiz_id) ==
    LET order == Sorted(targets)
        sent == {u \in targets : u \in ctx.delivered}
        sends == [i \in 1..Len(order) |->
                    Send(order[i],
                         IF order[i] \in ctx.delivered THEN "broadcast" ELSE "broadcast_failed",
                         quiz_id, 0)]
        state == _load_quiz_state
        users == (DOMAIN state) \cup sent
        updated == [u \in users |->
                      IF u \in sent
                      THEN [_get_user_quiz_state(state, u)[u]
                               EXCEPT !.active_quiz_id = quiz_id]
                      ELSE state[u]]
    IN  [sends |-> sends, state |-> updated, failed |-> targets \ sent]

\* settings["admin_users"] entries that are positive ints
AdminIds == {u \in AdminUsers : u > 0}

\* mutant: hiding or showing a quiz makes it unsent again
CbToggleHiddenUnsent(ctx, loaded, qi) ==
    LET toggled == [loaded EXCEPT ![qi].hidden = ~_is_hidden_quiz(loaded[qi]),
                                  ![qi].processed = FALSE]
    IN  Res(_save_quizzes(ctx, toggled), quiz_state, wizard,
            <<SaveQuizzesEff(TRUE), AnswerCb("hidden_now"), EditMessage>>)

\* toggle_hidden: the flag inverted, the list saved, the list message redrawn
CbToggleHidden(ctx, loaded, qi) ==
    LET toggled == [loaded EXCEPT ![qi].hidden = ~_is_hidden_quiz(loaded[qi])]
    IN  IF ~ctx.disk_ok
        THEN Res(_save_quizzes(ctx, toggled), quiz_state, wizard,
                 <<SaveQuizzesEff(FALSE), AnswerCb("save_failed")>>)
        ELSE Res(_save_quizzes(ctx, toggled), quiz_state, wizard,
                 <<SaveQuizzesEff(TRUE), AnswerCb("hidden_now"), EditMessage>>)

CbSendAdmins(ctx, quiz_id) ==
    LET b == Broadcast(ctx, AdminIds, quiz_id)
    IN  Res(quizzes, _save_quiz_state(ctx, b.state), wizard,
            <<AnswerCb("sending")>> \o b.sends
                \o <<SaveStateEff(ctx.disk_ok), EditMessage>>)

\* mutant: the quiz is marked processed whatever the send loop met
CbSendAllAlwaysProcessed(ctx, loaded, qi, quiz_id) ==
    LET b == Broadcast(ctx, ctx.in_course_users, quiz_id)
        marked == [loaded EXCEPT ![qi].processed = TRUE]
    IN  IF ~ctx.course_chat
        THEN Res(quizzes, quiz_state, wizard,
                 <<AnswerCb("sending"), AnswerCb("no_course_chat")>>)
        ELSE Res(_save_quizzes(ctx, marked), _save_quiz_state(ctx, b.state), wizard,
                 <<AnswerCb("sending")>> \o b.sends
                     \o <<SaveQuizzesEff(ctx.disk_ok), SaveStateEff(ctx.disk_ok),
                          EditMessage>>)

\* send_all: the course members are sent the question, the quiz is marked
\* processed when no send failed, the reached users get it as active quiz
CbSendAll(ctx, loaded, qi, quiz_id) ==
    LET b == Broadcast(ctx, ctx.in_course_users, quiz_id)
        marked == [loaded EXCEPT ![qi].processed = (b.failed = {})]
    IN  IF ~ctx.course_chat
        THEN Res(quizzes, quiz_state, wizard,
                 <<AnswerCb("sending"), AnswerCb("no_course_chat")>>)
        ELSE Res(_save_quizzes(ctx, marked), _save_quiz_state(ctx, b.state), wizard,
                 <<AnswerCb("sending")>> \o b.sends
                     \o <<SaveQuizzesEff(ctx.disk_ok), SaveStateEff(ctx.disk_ok),
                          EditMessage>>)

_handle_callback_query(ctx) ==
    LET uid == ctx.user_id
        action == ctx.cmd
        quiz_id == ctx.args
        loaded == _load_quizzes
        qi == FindQuiz(loaded, quiz_id)
    IN  IF ~_is_admin(uid)
        THEN Res(quizzes, quiz_state, wizard, <<AnswerCb("admin_only")>>)
        ELSE IF action \notin {"send_all", "send_admins", "toggle_hidden", "edit"}
        THEN Res(quizzes, quiz_state, wizard, <<AnswerCb("unknown_button")>>)
        ELSE IF quiz_id = Null
        THEN Res(quizzes, quiz_state, wizard, <<AnswerCb("bad_quiz_id")>>)
        ELSE IF qi = 0
        THEN Res(quizzes, quiz_state, wizard, <<AnswerCb("not_found")>>)
        ELSE IF action = "edit"
        THEN Res(quizzes, quiz_state,
                 [wizard EXCEPT ![uid] =
                     Session("await_question", quiz_id, "edit", <<>>)],
                 <<AnswerCb("edit_started"), ReplyQ(ctx, "edit_started", quiz_id)>>)
        ELSE IF action = "toggle_hidden"
        THEN CbToggleHidden(ctx, loaded, qi)
        ELSE IF _is_hidden_quiz(loaded[qi])
        THEN Res(quizzes, quiz_state, wizard, <<AnswerCb("quiz_hidden")>>)
        ELSE IF action = "send_all" /\ Flag(loaded[qi], "processed")
        THEN Res(quizzes, quiz_state, wizard, <<AnswerCb("already_processed")>>)
        ELSE IF action = "send_admins"
        THEN CbSendAdmins(ctx, quiz_id)
        ELSE CbSendAll(ctx, loaded, qi, quiz_id)

(***************************************************************************)
(* handlers/__init__.py: dispatch of one inbound message                   *)
(***************************************************************************)
\* mutant: the answer route is tried before the wizard route
RouteAnswerFirst(ctx) ==
    IF ctx.cmd = "" /\ ctx.chat_type = "private" THEN "answer" ELSE ctx.cmd

Route(ctx) ==
    IF ctx.cmd = "" /\ ctx.chat_type = "private" /\ _is_admin(ctx.user_id)
       /\ HasSession(ctx.user_id)
    THEN "wizard"
    ELSE IF ctx.cmd = "" /\ ctx.chat_type = "private"
    THEN "answer"
    ELSE ctx.cmd

dispatch(ctx) ==
    LET route == Route(ctx)
    IN  CASE route = "wizard"       -> handle_quiz_wizard(ctx)
          [] route = "answer"       -> handle_quiz_answer(ctx)
          [] route = "/quiz"        -> handle_quiz(ctx)
          [] route = "/skip"        -> handle_skip(ctx)
          [] route = "/quiz_ask"    -> handle_quiz_ask(ctx)
          [] route = "/quiz_create" -> handle_quiz_create(ctx)
          [] route = "/quiz_delete" -> handle_quiz_delete(ctx)
          [] route = "/quiz_list"   -> handle_quiz_list(ctx)
          [] route = "/quiz_admin_stat" -> handle_quiz_admin_stat(ctx)
          [] OTHER                  -> Res(quizzes, quiz_state, wizard, <<>>)

(***************************************************************************)
(* Inbound events                                                          *)
(***************************************************************************)
NoLlm == LlmRaise

\* a text message: /cmd args, or a bare text (cmd = "")
Msg(u, chat, cmd, args, text, llm, ok) ==
    [llm |-> llm, user_id |-> u, chat_type |-> chat, disk_ok |-> ok,
     text |-> text, args |-> args, course_chat |-> FALSE, in_course_users |-> {},
     delivered |-> {}, cmd |-> cmd, kind |-> "message"]

\* a button press: callback data "quiz_<action>:<quiz_id>"
Cb(u, action, quiz_id, delivered, members, course_chat, ok) ==
    [llm |-> NoLlm, user_id |-> u, chat_type |-> "private", disk_ok |-> ok,
     text |-> <<>>, args |-> quiz_id, course_chat |-> course_chat,
     in_course_users |-> members, delivered |-> delivered, cmd |-> action,
     kind |-> "callback"]

NoEvent == Msg(0, "none", "", Null, <<>>, NoLlm, TRUE)

\* the judge did not return a verdict of its own
JudgeFails(llm) ==
    \/ llm.raises
    \/ /\ ~StartsWith(Lower(Strip(llm.content)), L_true)
       /\ ~StartsWith(Lower(Strip(llm.content)), L_false)

RECURSIVE SumOver(_, _)
SumOver(f, S) ==
    IF S = {} THEN 0
    ELSE LET x == CHOOSE y \in S : TRUE IN f[x] + SumOver(f, S \ {x})

UserAttempts(u) ==
    SumOver([q \in DOMAIN u.results |-> u.results[q].attempts], DOMAIN u.results)

\* graded submissions recorded so far, over all users and quizzes
TotalAttempts ==
    SumOver([u \in DOMAIN quiz_state |-> UserAttempts(quiz_state[u])], DOMAIN quiz_state)

\* the section-8 scenario, followed event by event by user 3; any other
\* event ends it
ScenStep(s, ctx) ==
    LET mine == /\ ctx.kind = "message" /\ ctx.user_id = 3
                /\ ctx.chat_type = "private" /\ ctx.disk_ok
        says(t) == mine /\ ctx.cmd = "" /\ ctx.text = t /\ JudgeFails(ctx.llm)
    IN  CASE s = "s0" /\ mine /\ ctx.cmd = "/quiz" -> "s1"
          [] s = "s1" /\ says(T_4)     -> "s2"
          [] s = "s2" /\ says(T_paris) -> "s3"
          [] s = "s3" /\ says(T_Paris) -> "s4"
          [] OTHER -> "off"

\* one iteration of the polling loop: the update is handled to completion
Step(ctx) ==
    \E r \in {IF ctx.kind = "message" THEN dispatch(ctx) ELSE _handle_callback_query(ctx)} :
        /\ quizzes' = r.quizzes
        /\ quiz_state' = r.quiz_state
        /\ wizard' = r.wizard
        /\ log' = r.log
        /\ ev' = ctx
        /\ scen' = ScenStep(scen, ctx)
        /\ UNCHANGED <<files, save, mem, doc, loop>>

(***************************************************************************)
(* bot.py main, step by step.  The server queues updates 1, 2, ...; the    *)
(* loop fetches a batch, and for each update of the batch advances offset  *)
(* and calls the handler, which loads a store, changes it and saves it.    *)
(* The store is reduced to the list of update ids written to it.  The      *)
(* scheduler thread runs beside the loop and only reads the stores.        *)
(***************************************************************************)
Handler(id, phase, local) == [id |-> id, phase |-> phase, local |-> local]

Polling ==
    [pc |-> "poll", offset |-> 0, batch |-> <<>>, pos |-> 1, running |-> {},
     store |-> <<>>, arrived |-> 0, zipped |-> <<>>, handled |-> <<>>,
     dropped |-> {}]

LoopOnly ==
    UNCHANGED <<quizzes, quiz_state, wizard, ev, log, scen, files, save, mem, doc>>

\* a user sends a message or presses a button
Arrive(max) ==
    /\ loop.arrived < max
    /\ loop' = [loop EXCEPT !.arrived = @ + 1]
    /\ LoopOnly

\* data = tg.get_updates(offset=offset): queued updates with update_id >=
\* offset, in order, as many as the server chooses to return
GetUpdates ==
    /\ loop.pc = "poll"
    /\ LET lo == IF loop.offset > 1 THEN loop.offset ELSE 1
       IN  \E hi \in (lo - 1)..loop.arrived :
               loop' = [loop EXCEPT !.batch = [i \in 1..(hi - lo + 1) |-> lo + i - 1],
                                    !.pos = 1, !.pc = "iter"]
    /\ LoopOnly

\* mutant: the handler is started on its own and the loop moves on
CallDetached(l, id) ==
    [l EXCEPT !.running = @ \cup {Handler(id, "start", <<>>)}, !.pos = @ + 1,
              !.handled = Append(@, id)]

\* _handle_message(...), _handle_callback_query(...): a plain call, the
\* loop waits for it to return; handled lists the calls made so far
Call(l, id) ==
    [l EXCEPT !.running = @ \cup {Handler(id, "start", <<>>)}, !.pc = "call",
              !.handled = Append(@, id)]

\* mutant: the offset is moved past an update only once its handler has
\* returned, on the way to the next update of the batch
HandleUpdateLate ==
    /\ loop.pc = "iter" /\ loop.pos <= Len(loop.batch)
    /\ LET id == loop.batch[loop.pos]
           done == IF loop.pos > 1 THEN loop.batch[loop.pos - 1] + 1 ELSE 0
       IN  loop' = Call([loop EXCEPT !.offset = IF done > @ THEN done ELSE @], id)
    /\ LoopOnly

\* for update in results: offset = max(offset, update_id + 1), then the call
HandleUpdate ==
    /\ loop.pc = "iter" /\ loop.pos <= Len(loop.batch)
    /\ LET id == loop.batch[loop.pos]
       IN  loop' = Call([loop EXCEPT !.offset = IF id + 1 > @ THEN id + 1 ELSE @], id)
    /\ LoopOnly

\* the for loop is exhausted: back to get_updates
EndBatch ==
    /\ loop.pc = "iter" /\ loop.pos > Len(loop.batch)
    /\ loop' = [loop EXCEPT !.pc = "poll", !.batch = <<>>, !.pos = 1]
    /\ LoopOnly

\* _load_quizzes, _load_quiz_state at the head of a handler
HandlerLoad ==
    /\ \E h \in loop.running :
          /\ h.phase = "start"
          /\ loop' = [loop EXCEPT !.running =
                         (@ \ {h}) \cup {Handler(h.id, "loaded", loop.store)}]
    /\ LoopOnly

\* the handler changes what it loaded and saves it
HandlerSave ==
    /\ \E h \in loop.running :
          /\ h.phase = "loaded"
          /\ loop' = [loop EXCEPT !.store = Append(h.local, h.id),
                                  !.running = (@ \ {h}) \cup {Handler(h.id, "saved", h.local)}]
    /\ LoopOnly

\* the handler returns, having saved or having had nothing to save
HandlerReturn ==
    /\ \E h \in loop.running :
          /\ h.phase \in {"loaded", "saved"}
          /\ loop' = IF loop.pc = "call"
                     THEN [loop EXCEPT !.running = @ \ {h}, !.pc = "iter", !.pos = @ + 1]
                     ELSE [loop EXCEPT !.running = @ \ {h}]
    /\ LoopOnly

\* the handler raises: the except clauses of the loop log it, sleep and
\* poll again; the rest of the batch (dropped) is left to the next poll
HandlerRaise ==
    /\ \E h \in loop.running :
          /\ h.phase \in {"start", "loaded"}
          /\ loop' = IF loop.pc = "call"
                     THEN [loop EXCEPT !.running = @ \ {h}, !.pc = "poll",
                                       !.batch = <<>>, !.pos = 1,
                                       !.dropped = {loop.batch[i] :
                                                      i \in (loop.pos + 1)..Len(loop.batch)}]
                     ELSE [loop EXCEPT !.running = @ \ {h}]
    /\ LoopOnly

\* the scheduler thread: scheduled_backup zips the store files as they are
ScheduledBackup ==
    /\ loop.zipped # loop.store
    /\ loop' = [loop EXCEPT !.zipped = loop.store]
    /\ LoopOnly

(***************************************************************************)
(* data/quiz.py, data/users.py: how a _save_* call reaches the disk.  The  *)
(* three stores share the procedure: the serialized document goes to       *)
(* <path>.tmp with write_text, then the temp file is renamed over <path>.  *)
(* A document is a sequence of chunks; write_text creates or truncates the *)
(* file and writes the chunks one after another; the process can be killed *)
(* between any two steps, and the files stay as they are.                  *)
(***************************************************************************)
Stores == {"quizzes", "quiz_state", "users"}

\* Path(quizzes_file), Path(quiz_state_file), Path(users_file)
PathOf(store) == <<store, "json">>

\* mutant: the document is written straight to the target path
TmpPathInPlace(path) == path

\* path.with_suffix(path.suffix + ".tmp")
TmpPath(path) == <<path[1], "json.tmp">>

\* json.dumps(payload) + "\n" of version v of a document, in chunks
Raw(v) == <<"{", v, "}">>

Idle == [doc |-> <<>>, n |-> 0, pc |-> "idle", store |-> "none"]

\* no structure in hand, nothing serialized yet
Mem(store, phase, x, input) == [x |-> x, phase |-> phase, store |-> store, input |-> input]
NoMem == Mem("none", "none", <<>>, <<>>)
NoDoc == [x |-> <<>>, store |-> "none"]

InitDisk ==
    /\ files = [p \in {} |-> <<>>]
    /\ save = Idle
    /\ mem = NoMem
    /\ doc = NoDoc
    /\ loop = Polling

\* Path.write_text, first half: open(tmp, "w") creates or truncates
WriteOpen(fs, path) == [p \in DOMAIN fs \cup {path} |-> IF p = path THEN <<>> ELSE fs[p]]

\* Path.write_text, one chunk reaching the file
WriteChunk(fs, path, chunk) == [fs EXCEPT ![path] = Append(@, chunk)]

\* tmp_path.replace(path): rename(2), atomic
Replace(fs, from, to) ==
    [p \in (DOMAIN fs \ {from}) \cup {to} |-> IF p = to THEN fs[from] ELSE fs[p]]

StoresUnchanged == UNCHANGED <<quizzes, quiz_state, wizard, ev, log, scen, mem, doc, loop>>

(***************************************************************************)
(* backup.py: _create_backup, run by the scheduler thread beside the poll  *)
(* loop.  It creates the archive under backups/, and for each store file   *)
(* that exists zipf.write opens it once and copies it block by block into  *)
(* the archive.  The descriptor refers to the file that had the path when  *)
(* it was opened: a later rename over the path leaves that file as it was, *)
(* a write through the path to the same file is seen by the next block.    *)
(***************************************************************************)
ZipPath == <<"backups", "zip">>

\* the files_to_backup list, the stores among them, in its order
BackupOrder == <<"quizzes", "quiz_state", "users">>

Reader(pc, k, n, got, opened, held, detached) ==
    [n |-> n, k |-> k, pc |-> pc, got |-> got, opened |-> opened, held |-> held,
     detached |-> detached]

\* the scheduler thread between two runs of the job
BackupIdle == Reader("idle", 1, 0, <<>>, <<>>, <<>>, FALSE)

\* the bytes of a file, block by block: a version is a sequence of blocks
Bytes(d) ==
    CASE Len(d) = 0 -> <<>>
      [] Len(d) = 1 -> <<d[1]>>
      [] Len(d) = 2 -> <<d[1]>> \o d[2]
      [] OTHER      -> <<d[1]>> \o d[2] \o <<d[3]>>

\* mutant: every block is read through the path, as if the file were reopened
OpenFileByPath(rd, fs) == fs[PathOf(BackupOrder[rd.k])]

\* open(filename, "rb") in zipf.write: what the descriptor refers to
OpenFile(rd, fs) == IF rd.detached THEN rd.held ELSE fs[PathOf(BackupOrder[rd.k])]

\* rename(from, to) seen from a descriptor that is open on the old file at to
Unlinked(rd, fs, from, to) ==
    IF from # to /\ rd.pc = "read" /\ ~rd.detached /\ PathOf(BackupOrder[rd.k]) = to
    THEN [rd EXCEPT !.held = fs[to], !.detached = TRUE]
    ELSE rd

BackupOnly == UNCHANGED <<quizzes, quiz_state, wizard, ev, log, scen, save, mem, doc>>

\* zipfile.ZipFile(backup_path, "w"): the archive is created
BackupStart ==
    /\ loop.pc = "idle"
    /\ files' = WriteOpen(files, ZipPath)
    /\ loop' = [BackupIdle EXCEPT !.pc = "next"]
    /\ BackupOnly

\* if file_path.exists(): zipf.write(...) opens the file; a missing one is skipped
BackupOpen ==
    /\ loop.pc = "next"
    /\ loop.k <= Len(BackupOrder)
    /\ loop' = IF PathOf(BackupOrder[loop.k]) \in DOMAIN files
               THEN [loop EXCEPT !.pc = "read", !.n = 0, !.got = <<>>,
                                 !.opened = files[PathOf(BackupOrder[loop.k])],
                                 !.held = <<>>, !.detached = FALSE]
               ELSE [loop EXCEPT !.k = @ + 1]
    /\ UNCHANGED files
    /\ BackupOnly

\* shutil.copyfileobj: one more block is read from the descriptor
BackupRead ==
    /\ loop.pc = "read"
    /\ loop.n < Len(Bytes(OpenFile(loop, files)))
    /\ loop' = [loop EXCEPT !.n = @ + 1,
                            !.got = Append(@, Bytes(OpenFile(loop, files))[loop.n + 1])]
    /\ UNCHANGED files
    /\ BackupOnly

\* end of file: the member is complete in the archive, the file is closed
BackupClose ==
    /\ loop.pc = "read"
    /\ loop.n >= Len(Bytes(OpenFile(loop, files)))
    /\ files' = WriteChunk(files, ZipPath, loop.got)
    /\ loop' = [loop EXCEPT !.pc = "next", !.k = @ + 1]
    /\ BackupOnly

\* the archive is closed and sent with sendDocument
BackupSend ==
    /\ loop.pc = "next"
    /\ loop.k > Len(BackupOrder)
    /\ loop' = BackupIdle
    /\ UNCHANGED files
    /\ BackupOnly


\* a handler calls _save_*(file, X): the document is serialized
SaveCall(S, V) ==
    \E store \in S, v \in V :
        /\ save.pc = "idle"
        /\ save' = [doc |-> Raw(v), n |-> 0, pc |-> "open", store |-> store]
        /\ UNCHANGED files
        /\ StoresUnchanged

SaveOpen ==
    /\ save.pc = "open"
    /\ files' = WriteOpen(files, TmpPath(PathOf(save.store)))
    /\ save' = [save EXCEPT !.pc = "write"]
    /\ StoresUnchanged

SaveWrite ==
    /\ save.pc = "write"
    /\ files' = WriteChunk(files, TmpPath(PathOf(save.store)), save.doc[save.n + 1])
    /\ save' = [save EXCEPT !.n = @ + 1,
                            !.pc = IF save.n + 1 = Len(save.doc) THEN "replace" ELSE "write"]
    /\ StoresUnchanged

\* tmp_path.replace(path); a descriptor open on the old file keeps that file
SaveReplace ==
    /\ save.pc = "replace"
    /\ files' = Replace(files, TmpPath(PathOf(save.store)), PathOf(save.store))
    /\ save' = Idle
    /\ loop' = Unlinked(loop, files, TmpPath(PathOf(save.store)), PathOf(save.store))
    /\ UNCHANGED <<quizzes, quiz_state, wizard, ev, log, scen, mem, doc>>

\* the process is killed during the save and started again
Kill ==
    /\ save.pc # "idle"
    /\ save' = Idle
    /\ UNCHANGED files
    /\ StoresUnchanged

(***************************************************************************)
(* data/quiz.py: what _save_quizzes, _load_quizzes, _save_quiz_state and   *)
(* _load_quiz_state do to values of any JSON type.  A value carries its    *)
(* type tag; "missing" is a key that is not in the dict, so that           *)
(* d.get(key) reads None.  bool(), int(), str() are computed per type.     *)
(***************************************************************************)
J(t, b, i, s) == [s |-> s, i |-> i, b |-> b, t |-> t]
JMissing  == J("missing", FALSE, 0, "")
JNone     == J("none", FALSE, 0, "")
JBool(b)  == J("bool", b, 0, "")
JInt(i)   == J("int", FALSE, i, "")
JStr(s)   == J("str", FALSE, 0, s)

\* d.get(key): a missing key reads None
Get(x) == IF x.t = "missing" THEN JNone ELSE x

\* truth value of a Python object
Truthy(x) ==
    CASE x.t = "bool" -> x.b
      [] x.t = "int"  -> x.i # 0
      [] x.t = "str"  -> x.s # ""
      [] OTHER        -> FALSE

\* bool(x)
PyBool(x) == JBool(Truthy(x))

\* str(i) and int(s) for the numerals in use
Numeral(i) == CASE i = 0 -> "0" [] i = 1 -> "1" [] i = 2 -> "2" [] i = 4 -> "4"
                [] OTHER -> "7"
Parse(s)   == CASE s = "0" -> 0 [] s = "1" -> 1 [] s = "2" -> 2 [] s = "4" -> 4
                [] OTHER -> 7

\* str(x)
PyStr(x) ==
    CASE x.t = "bool" -> JStr(IF x.b THEN "True" ELSE "False")
      [] x.t = "int"  -> JStr(Numeral(x.i))
      [] x.t = "str"  -> x
      [] OTHER        -> JStr("None")

\* int(x or 0)
PyIntOr0(x) ==
    IF ~Truthy(x) THEN JInt(0)
    ELSE CASE x.t = "bool" -> JInt(1)
           [] x.t = "int"  -> x
           [] OTHER        -> JInt(Parse(x.s))

\* str(x or "")
PyStrOrEmpty(x) == IF ~Truthy(x) THEN JStr("") ELSE PyStr(x)

\* a list item of quizzes.json: a dict with these keys, or something else
QuizItem(isdict, id, question, answer, processed, hidden) ==
    [id |-> id, question |-> question, answer |-> answer,
     processed |-> processed, hidden |-> hidden, isdict |-> isdict]

\* the list _save_quizzes serializes
SaveQuizzesDoc(X) ==
    LET dicts == SelectSeq(X, LAMBDA q : q.isdict)
    IN  [i \in 1..Len(dicts) |->
            QuizItem(TRUE, Get(dicts[i].id), Get(dicts[i].question),
                     Get(dicts[i].answer), PyBool(Get(dicts[i].processed)),
                     PyBool(Get(dicts[i].hidden)))]

\* mutant: items are kept by the value of "id", not by the presence of the key
LoadQuizzesDocById(D) ==
    SelectSeq(D, LAMBDA q : q.isdict /\ Truthy(Get(q.id)))

\* the list _load_quizzes returns for a document
LoadQuizzesDoc(D) ==
    LET kept == SelectSeq(D, LAMBDA q : q.isdict /\ q.id.t # "missing")
    IN  [i \in 1..Len(kept) |->
            [kept[i] EXCEPT !.processed = PyBool(Get(@)), !.hidden = PyBool(Get(@))]]

\* an entry of results, of an answers list, a user of quiz_state.json
ResultItem(isdict, correct, attempts) ==
    [correct |-> correct, attempts |-> attempts, isdict |-> isdict]
AnswerItem(kind, answer, ts, correct) ==
    [answer |-> answer, correct |-> correct, kind |-> kind, ts |-> ts]
UserItem(isdict, active_quiz_id, results, answers) ==
    [active_quiz_id |-> active_quiz_id, results |-> results, answers |-> answers,
     isdict |-> isdict]

\* one element of norm_answers[qid]; kind is "dict" or "str"
SaveAnswerItem(a) ==
    IF a.kind = "dict"
    THEN AnswerItem("dict", PyStrOrEmpty(Get(a.answer)), PyStrOrEmpty(Get(a.ts)),
                    PyBool(Get(a.correct)))
    ELSE AnswerItem("dict", PyStr(a.answer), JStr(""), JBool(FALSE))

\* answers: a list per quiz id, or not a list (islist FALSE)
SaveAnswers(answers) ==
    LET lists == {q \in DOMAIN answers : answers[q].islist}
    IN  [q \in lists |->
            LET arr == SelectSeq(answers[q].items, LAMBDA a : a.kind \in {"dict", "str"})
            IN  [islist |-> TRUE, items |-> [i \in 1..Len(arr) |-> SaveAnswerItem(arr[i])]]]

SaveResults(results) ==
    [q \in {r \in DOMAIN results : results[r].isdict} |->
        ResultItem(TRUE, PyBool(Get(results[q].correct)),
                   PyIntOr0(Get(results[q].attempts)))]

\* the users object _save_quiz_state serializes
SaveQuizStateDoc(X) ==
    [k \in {u \in DOMAIN X : X[u].isdict} |->
        UserItem(TRUE,
                 IF Get(X[k].active_quiz_id).t = "none" THEN JNone
                 ELSE PyStr(X[k].active_quiz_id),
                 SaveResults(X[k].results), SaveAnswers(X[k].answers))]

\* the users object _load_quiz_state returns for a document
LoadQuizStateDoc(D) == D

SaveDoc(store, X) == IF store = "quizzes" THEN SaveQuizzesDoc(X) ELSE SaveQuizStateDoc(X)
LoadDoc(store, D) == IF store = "quizzes" THEN LoadQuizzesDoc(D) ELSE LoadQuizStateDoc(D)

\* _save_*(file, mem.x)
RoundTripSave ==
    /\ mem.phase \in {"input", "loaded"}
    /\ doc' = [x |-> SaveDoc(mem.store, mem.x), store |-> mem.store]
    /\ mem' = [mem EXCEPT !.phase = IF mem.phase = "input" THEN "saved" ELSE "resaved"]
    /\ UNCHANGED <<quizzes, quiz_state, wizard, ev, log, scen, files, save, loop>>

\* mem.x = _load_*(file)
RoundTripLoad ==
    /\ mem.phase = "saved"
    /\ mem' = [mem EXCEPT !.phase = "loaded", !.x = LoadDoc(doc.store, doc.x)]
    /\ UNCHANGED <<quizzes, quiz_state, wizard, ev, log, scen, files, save, doc, loop>>

(***************************************************************************)
(* Bounds and input sets                                                   *)
(***************************************************************************)
\* cap on graded submissions (all users, all quizzes) in Spec
MaxSubmissions == 2

Quiz(id, question, answer, hidden) ==
    [id |-> id, question |-> question, answer |-> answer,
     processed |-> FALSE, hidden |-> hidden]

\* the repository of the section-8 scenario
ScenarioQuizzes ==
    << Quiz("q1", Q_sum, T_4, FALSE),
       Quiz("q2", Q_new, T_5, TRUE),
       Quiz("q3", Q_cap, T_Paris, FALSE) >>

ProgUsers   == {1, 3}
ProgIds     == {"q1", "q2"}
ProgTexts   == {T_4}
ProgLlms    == {LlmRaise, LlmReply(L_true, 7), LlmReply(L_false, 7)}

(***************************************************************************)
(* Actions: one per kind of inbound event                                  *)
(***************************************************************************)
CmdQuiz(U, C) ==
    \E u \in U, chat \in C : Step(Msg(u, chat, "/quiz", Null, <<>>, NoLlm, TRUE))

CmdSkip(U, C) ==
    \E u \in U, chat \in C : Step(Msg(u, chat, "/skip", Null, <<>>, NoLlm, TRUE))

CmdQuizAsk(U, I) ==
    \E u \in U, id \in I : Step(Msg(u, "private", "/quiz_ask", id, <<>>, NoLlm, TRUE))

CmdQuizDelete(U, I) ==
    \E u \in U, id \in I : Step(Msg(u, "private", "/quiz_delete", id, <<>>, NoLlm, TRUE))

\* a bare text; grading is capped at max submissions
TextMessage(U, C, T, L, max) ==
    \E u \in U, chat \in C, t \in T, llm \in L :
        /\ TotalAttempts < max
        /\ Step(Msg(u, chat, "", Null, t, llm, TRUE))

ButtonToggleHidden(U, I) ==
    \E u \in U, id \in I : Step(Cb(u, "toggle_hidden", id, {}, {}, FALSE, TRUE))

ButtonSendAdmins(U, I, D) ==
    \E u \in U, id \in I, d \in D :
        Step(Cb(u, "send_admins", id, d, {}, FALSE, TRUE))

\* send_all with the course chat configured: members are the private-chat
\* users who are in the course, d those the send reaches
ButtonSendAll(U, I, M, D) ==
    \E u \in U, id \in I, m \in M, d \in D :
        Step(Cb(u, "send_all", id, d, m, TRUE, TRUE))

ButtonEdit(U, I) ==
    \E u \in U, id \in I : Step(Cb(u, "edit", id, {}, {}, FALSE, TRUE))

CmdQuizCreate(U, I) ==
    \E u \in U, id \in I : Step(Msg(u, "private", "/quiz_create", id, <<>>, NoLlm, TRUE))

\* any command of K, with or without an argument, in any chat of C
Command(U, C, K, I) ==
    \E u \in U, chat \in C, cmd \in K, id \in I :
        Step(Msg(u, chat, cmd, id, <<>>, NoLlm, TRUE))

\* any button of A; send_all finds the course chat configured
Button(U, A, I, D) ==
    \E u \in U, action \in A, id \in I, d \in D :
        Step(Cb(u, action, id, d, d, TRUE, TRUE))

\* /quiz_admin_stat; c = <<configured, members>>: whether course_chat_id is
\* configured, and the users get_chat_member then reports as in the course
CmdQuizAdminStat(U, C, S) ==
    \E u \in U, chat \in C, c \in S :
        Step([Msg(u, chat, "/quiz_admin_stat", Null, <<>>, NoLlm, TRUE)
                 EXCEPT !.in_course_users = c[2], !.course_chat = c[1]])

\* the same events while every write of a store raises (disk full, read-only)
CmdDiskFails(U, K, I) ==
    \E u \in U, cmd \in K, id \in I :
        Step(Msg(u, "private", cmd, id, <<>>, NoLlm, FALSE))

TextDiskFails(U, T, L, max) ==
    \E u \in U, t \in T, llm \in L :
        /\ TotalAttempts < max
        /\ Step(Msg(u, "private", "", Null, t, llm, FALSE))

ButtonDiskFails(U, A, I) ==
    \E u \in U, action \in A, id \in I :
        Step(Cb(u, action, id, {}, {}, FALSE, FALSE))

(***************************************************************************)
(* Spec: progression.  Two quizzes, an admin and a student answering,      *)
(* the admin hiding, deleting and force-asking quizzes.                    *)
(***************************************************************************)
Init ==
    /\ quizzes = << Quiz("q1", Q_sum, T_4, FALSE), Quiz("q2", Q_cap, T_Paris, FALSE) >>
    /\ quiz_state = EmptyMap
    /\ wizard = [u \in Users |-> NoSession]
    /\ ev = NoEvent
    /\ log = <<>>
    /\ scen = "off"
    /\ InitDisk

Next ==
    \/ CmdQuiz(ProgUsers, {"private"})
    \/ CmdSkip(ProgUsers, {"private"})
    \/ TextMessage(ProgUsers, {"private"}, ProgTexts, ProgLlms, MaxSubmissions)
    \/ CmdQuizAsk({1}, ProgIds)
    \/ CmdQuizDelete({1}, ProgIds)
    \/ ButtonToggleHidden({1}, ProgIds)

Spec == Init /\ [][Next]_vars

(***************************************************************************)
(* SpecRepo: authoring.  Two admins run create and edit wizards over the   *)
(* same ids while quizzes are deleted, hidden and broadcast to a student.  *)
(***************************************************************************)
RepoIds  == {"q1", "q2"}
WizTexts == {Q_new, T_blank}

InitRepo ==
    /\ quizzes = << Quiz("q1", Q_sum, T_4, FALSE) >>
    /\ quiz_state = EmptyMap
    /\ wizard = [u \in Users |-> NoSession]
    /\ ev = NoEvent
    /\ log = <<>>
    /\ scen = "off"
    /\ InitDisk

NextRepo ==
    \/ CmdQuizCreate(AdminUsers, RepoIds)
    \/ ButtonEdit({1}, RepoIds)
    \/ TextMessage(AdminUsers, {"private"}, WizTexts, {NoLlm}, MaxSubmissions)
    \/ CmdQuizDelete({2}, RepoIds)
    \/ ButtonToggleHidden({2}, RepoIds)
    \/ ButtonSendAll({1}, {"q1"}, {{3}}, {{}, {3}})

SpecRepo == InitRepo /\ [][NextRepo]_vars

(***************************************************************************)
(* SpecDispatch: routing.  Admin 1 and student 3 take quizzes; both try to *)
(* open a wizard; texts arrive in private and in group chats, commands     *)
(* arrive while a session is open.                                         *)
(***************************************************************************)
DispatchTexts == {T_4, T_blank}
DispatchLlms  == {LlmRaise, LlmReply(L_false, 7)}

NextDispatch ==
    \/ CmdQuiz({1, 3}, {"private"})
    \/ CmdSkip({1}, {"private", "group"})
    \/ CmdQuizCreate({1, 3}, {"q3"})
    \/ ButtonEdit({1}, {"q1"})
    \/ TextMessage({1, 3}, {"private", "group"}, DispatchTexts, DispatchLlms,
                   MaxSubmissions)

SpecDispatch == Init /\ [][NextDispatch]_vars

(***************************************************************************)
(* SpecJudge: grading.  One quiz whose stored reference answer is drawn    *)
(* from JudgeRefs; admin 1 answers it with every text of JudgeTexts under  *)
(* every judge behaviour of JudgeLlms, and can have it asked again.        *)
(***************************************************************************)
JudgeRefs  == {T_Paris, T_Paris_sp, T_4}
JudgeTexts == {T_Paris, T_paris, T_paris_sp, T_Paris_sp, T_4}
JudgeLlms  ==
    {LlmRaise, LlmReply(T_empty, 7), LlmReply(L_maybe, 7), LlmReply(L_not_true, 7),
     LlmReply(L_True_nl, 7), LlmReply(L_False_sp, 7)}

InitJudge ==
    /\ \E ref \in JudgeRefs : quizzes = << Quiz("q1", Q_cap, ref, FALSE) >>
    /\ quiz_state = EmptyMap
    /\ wizard = [u \in Users |-> NoSession]
    /\ ev = NoEvent
    /\ log = <<>>
    /\ scen = "off"
    /\ InitDisk

NextJudge ==
    \/ CmdQuiz({1}, {"private"})
    \/ CmdQuizAsk({1}, {"q1"})
    \/ TextMessage({1}, {"private"}, JudgeTexts, JudgeLlms, MaxSubmissions)

SpecJudge == InitJudge /\ [][NextJudge]_vars

(***************************************************************************)
(* SpecScenario: the section-8 repository [q1, q2 hidden, q3], student 3   *)
(* starting with no progress, the judge never returning a verdict.         *)
(***************************************************************************)
\* cap on graded submissions in SpecScenario
ScenarioSubmissions == 3

ScenTexts == {T_4, T_paris, T_Paris}
ScenLlms  == {LlmRaise, LlmReply(L_maybe, 7)}

InitScenario ==
    /\ quizzes = ScenarioQuizzes
    /\ quiz_state = EmptyMap
    /\ wizard = [u \in Users |-> NoSession]
    /\ ev = NoEvent
    /\ log = <<>>
    /\ scen = "s0"
    /\ InitDisk

NextScenario ==
    \/ CmdQuiz({3}, {"private"})
    \/ CmdSkip({3}, {"private"})
    \/ TextMessage({3}, {"private"}, ScenTexts, ScenLlms, ScenarioSubmissions)
    \/ ButtonToggleHidden({1}, {"q2"})

SpecScenario == InitScenario /\ [][NextScenario]_vars

(***************************************************************************)
(* SpecSave: saves of the three stores, each of two document versions,     *)
(* with the process killed at any step of a save.                          *)
(***************************************************************************)
DocVersions == {"a", "b"}

NextSave ==
    \/ SaveCall(Stores, DocVersions)
    \/ SaveOpen
    \/ SaveWrite
    \/ SaveReplace
    \/ Kill

SpecSave == Init /\ [][NextSave]_vars

(***************************************************************************)
(* SpecBackup: saves of the three stores beside the backup job, every step *)
(* of either interleaved with every step of the other.  A version is two   *)
(* blocks, so that a copy made of two versions shows.                      *)
(***************************************************************************)
BackupVersions == {<<"a", "a">>, <<"b", "b">>}

InitBackup ==
    /\ quizzes = << Quiz("q1", Q_sum, T_4, FALSE), Quiz("q2", Q_cap, T_Paris, FALSE) >>
    /\ quiz_state = EmptyMap
    /\ wizard = [u \in Users |-> NoSession]
    /\ ev = NoEvent
    /\ log = <<>>
    /\ scen = "off"
    /\ files = [p \in {} |-> <<>>]
    /\ save = Idle
    /\ mem = NoMem
    /\ doc = NoDoc
    /\ loop = BackupIdle

NextBackup ==
    \/ SaveCall(Stores, BackupVersions)
    \/ SaveOpen
    \/ SaveWrite
    \/ SaveReplace
    \/ BackupStart
    \/ BackupOpen
    \/ BackupRead
    \/ BackupClose
    \/ BackupSend

SpecBackup == InitBackup /\ [][NextBackup]_vars

(***************************************************************************)
(* SpecRoundTrip: a structure drawn from the input sets is saved, loaded   *)
(* back and saved again.                                                   *)
(***************************************************************************)
\* longest quiz list and longest answers list of the inputs
MaxItems == 2

SeqsUpTo(S, n) == UNION {[1..k -> S] : k \in 0..n}

RtQuizItems ==
    {QuizItem(TRUE, id, JStr("?"), JStr("4"), pr, hd) :
        id \in {JStr("q1"), JMissing},
        pr \in {JMissing, JBool(TRUE), JInt(1), JStr("")},
        hd \in {JMissing, JBool(FALSE), JStr("yes")}}
    \cup {QuizItem(FALSE, JNone, JNone, JNone, JNone, JNone)}

RtAnswerItems ==
    {AnswerItem("dict", a, ts, c) :
        a \in {JStr("4"), JInt(4)}, ts \in {JStr("t"), JMissing},
        c \in {JBool(TRUE), JMissing}}
    \cup {AnswerItem("str", JStr("4"), JMissing, JMissing),
          AnswerItem("int", JInt(4), JMissing, JMissing)}

NoItems == [q \in {} |-> <<>>]

RtAnswers ==
    {NoItems, "q1" :> [islist |-> FALSE, items |-> <<>>]}
    \cup {"q1" :> [islist |-> TRUE, items |-> l] : l \in SeqsUpTo(RtAnswerItems, MaxItems)}

RtResults ==
    {NoItems, "q1" :> ResultItem(FALSE, JNone, JNone)}
    \cup {"q1" :> ResultItem(TRUE, c, a) :
            c \in {JBool(TRUE), JInt(0), JMissing}, a \in {JInt(2), JNone, JStr("2")}}

RtUsers ==
    {"1" :> UserItem(TRUE, act, r, a) :
        act \in {JNone, JStr("q1"), JInt(7)}, r \in RtResults, a \in RtAnswers}
    \cup {"1" :> UserItem(FALSE, JNone, NoItems, NoItems)}

InitRoundTrip ==
    /\ quizzes = <<>>
    /\ quiz_state = EmptyMap
    /\ wizard = [u \in Users |-> NoSession]
    /\ ev = NoEvent
    /\ log = <<>>
    /\ scen = "off"
    /\ files = [p \in {} |-> <<>>]
    /\ save = Idle
    /\ doc = NoDoc
    /\ loop = Polling
    /\ \/ \E X \in SeqsUpTo(RtQuizItems, MaxItems) : mem = Mem("quizzes", "input", X, X)
       \/ \E X \in RtUsers : mem = Mem("quiz_state", "input", X, X)

NextRoundTrip ==
    \/ RoundTripSave
    \/ RoundTripLoad

SpecRoundTrip == InitRoundTrip /\ [][NextRoundTrip]_vars

(***************************************************************************)
(* SpecFault: admin 1 takes, authors, hides and deletes quizzes; the judge *)
(* can fail, and any event can find the disk refusing writes.              *)
(***************************************************************************)
FaultCmds == {"/quiz", "/skip", "/quiz_ask", "/quiz_delete"}
FaultLlms == {LlmRaise, LlmReply(L_false, 7)}

NextFault ==
    \/ CmdQuiz({1}, {"private"})
    \/ CmdQuizCreate({1}, {"q3"})
    \/ CmdQuizDelete({1}, {"q1"})
    \/ TextMessage({1}, {"private"}, {T_4}, FaultLlms, MaxSubmissions)
    \/ CmdDiskFails({1}, FaultCmds, {"q1"})
    \/ TextDiskFails({1}, {T_4}, FaultLlms, MaxSubmissions)
    \/ ButtonDiskFails({1}, {"toggle_hidden"}, {"q1"})

SpecFault == Init /\ [][NextFault]_vars

(***************************************************************************)
(* SpecAuth: admin 1 and student 3 send every admin command and press      *)
(* every button; the student takes a quiz, the admin opens wizards.        *)
(***************************************************************************)
AdminCmds   == {"/quiz_create", "/quiz_delete", "/quiz_ask", "/quiz_list",
                "/quiz_admin_stat"}
AuthButtons == {"send_all", "send_admins", "toggle_hidden", "edit"}

NextAuth ==
    \/ CmdQuiz({3}, {"private"})
    \/ TextMessage({3}, {"private"}, {T_4}, {NoLlm}, MaxSubmissions)
    \/ Command({1, 3}, {"private", "group"}, AdminCmds, {Null, "q1", "q3"})
    \/ Button({1, 3}, AuthButtons, {"q1"}, {{}, {3}})

SpecAuth == Init /\ [][NextAuth]_vars

(***************************************************************************)
(* SpecPoll: the polling loop over the first MaxUpdates updates, with      *)
(* handlers that can raise and the backup scheduler running beside it.     *)
(***************************************************************************)
\* number of updates the users send
MaxUpdates == 3

NextPoll ==
    \/ Arrive(MaxUpdates)
    \/ GetUpdates
    \/ HandleUpdate
    \/ EndBatch
    \/ HandlerLoad
    \/ HandlerSave
    \/ HandlerReturn
    \/ HandlerRaise
    \/ ScheduledBackup

SpecPoll == Init /\ [][NextPoll]_vars

\* a started handler goes on until it returns or raises
HandlerStep == HandlerLoad \/ HandlerSave \/ HandlerReturn \/ HandlerRaise

\* a poll that returns queued updates
GetSome == GetUpdates /\ loop'.batch # <<>>

(***************************************************************************)
(* SpecPollFair: the poll loop of SpecPoll kept running.  while True never *)
(* exits and both except clauses fall through to the next poll, so the     *)
(* loop's own steps are taken whenever they can be; handlers return or     *)
(* raise (every request has a timeout); the server, polled again and       *)
(* again while updates are queued, returns some of them.                   *)
(***************************************************************************)
SpecPollFair ==
    /\ Init /\ [][NextPoll]_vars
    /\ WF_vars(GetUpdates) /\ WF_vars(HandleUpdate) /\ WF_vars(EndBatch)
    /\ WF_vars(HandlerStep)
    /\ SF_vars(GetSome)

(***************************************************************************)
(* SpecSkip: the repository [q1, q2 hidden, q3]; student 3 takes quizzes   *)
(* and skips, in the private chat and in a group, while admin 1 hides and  *)
(* shows q1 and q2.                                                        *)
(***************************************************************************)
SkipTexts == {T_4, T_Paris}

InitSkip ==
    /\ quizzes = ScenarioQuizzes
    /\ quiz_state = EmptyMap
    /\ wizard = [u \in Users |-> NoSession]
    /\ ev = NoEvent
    /\ log = <<>>
    /\ scen = "off"
    /\ InitDisk

NextSkip ==
    \/ CmdQuiz({3}, {"private"})
    \/ CmdSkip({3}, {"private", "group"})
    \/ TextMessage({3}, {"private"}, SkipTexts, {NoLlm}, MaxSubmissions)
    \/ ButtonToggleHidden({1}, {"q1", "q2"})

SpecSkip == InitSkip /\ [][NextSkip]_vars

(***************************************************************************)
(* SpecWizard: the wizard.  The repository starts as [q1, q2], q1 fresh or *)
(* sent and hidden; student 3 has failed q1 once.  Admins 1 and 2 open     *)
(* create and edit sessions and write padded, plain and blank texts, in    *)
(* the private chat and in a group, while admin 2 deletes q1.              *)
(***************************************************************************)
WizardTexts == {T_Paris_sp, T_4, T_blank}

InitWizard ==
    /\ \E b \in BOOLEAN :
          quizzes = << [Quiz("q1", Q_sum, T_5, b) EXCEPT !.processed = b],
                       Quiz("q2", Q_cap, T_Paris, FALSE) >>
    /\ quiz_state = (3 :> [active_quiz_id |-> "q1",
                           results |-> ("q1" :> [correct |-> FALSE, attempts |-> 1]),
                           answers |-> ("q1" :> <<[answer |-> T_4, correct |-> FALSE]>>)])
    /\ wizard = [u \in Users |-> NoSession]
    /\ ev = NoEvent
    /\ log = <<>>
    /\ scen = "off"
    /\ InitDisk

NextWizard ==
    \/ CmdQuizCreate(AdminUsers, {"q1", "q3"})
    \/ ButtonEdit(AdminUsers, {"q1"})
    \/ TextMessage(AdminUsers, {"private", "group"}, WizardTexts, {NoLlm}, MaxSubmissions)
    \/ CmdQuizDelete({2}, {"q1"})

SpecWizard == InitWizard /\ [][NextWizard]_vars

(***************************************************************************)
(* SpecStat: the admin report.  Admin 1 and student 3 answer q1 and q2     *)
(* right and wrong, admin 1 hides q2 and deletes q1, and the report is     *)
(* asked for in a private chat and in a group, with and without the        *)
(* course filter.                                                          *)
(***************************************************************************)
StatTexts  == {T_4, T_Paris}
StatCourse == {<<FALSE, {}>>, <<TRUE, {3}>>, <<TRUE, {1, 3}>>}

InitStat == Init

NextStat ==
    \/ CmdQuiz(ProgUsers, {"private"})
    \/ TextMessage(ProgUsers, {"private"}, StatTexts, {NoLlm}, MaxSubmissions)
    \/ ButtonToggleHidden({1}, {"q2"})
    \/ CmdQuizDelete({1}, {"q1"})
    \/ CmdQuizAdminStat(ProgUsers, {"private", "group"}, StatCourse)

SpecStat == InitStat /\ [][NextStat]_vars

(***************************************************************************)
(* SpecBroadcast: broadcasts.  Admin 1 hides and shows q1 and q2 and sends *)
(* them to the admins and to the course, where each send reaches some of   *)
(* its recipients, while student 3 takes the quizzes.                      *)
(***************************************************************************)
CourseMembers == {{}, {3}, {2, 3}}
CourseReached == {{}, {3}, {2, 3}}
AdminsReached == {{}, {2}, {1, 2}}

InitBroadcast == Init

NextBroadcast ==
    \/ CmdQuiz({3}, {"private"})
    \/ TextMessage({3}, {"private"}, {T_4}, {NoLlm}, MaxSubmissions)
    \/ ButtonToggleHidden({1}, ProgIds)
    \/ ButtonSendAll({1}, ProgIds, CourseMembers, CourseReached)
    \/ ButtonSendAdmins({1}, ProgIds, AdminsReached)

SpecBroadcast == InitBroadcast /\ [][NextBroadcast]_vars

(***************************************************************************)
(* SpecRetry: wizard commits on a failing disk.  Admin 1 creates q3 and    *)
(* edits q1 while writes of the repository fail or succeed, and admin 2    *)
(* deletes q1.                                                             *)
(***************************************************************************)
RetryTexts == {T_Paris_sp, T_4}

InitRetry == Init

NextRetry ==
    \/ CmdQuizCreate({1}, {"q3"})
    \/ ButtonEdit({1}, {"q1"})
    \/ TextMessage({1}, {"private"}, RetryTexts, {NoLlm}, MaxSubmissions)
    \/ TextDiskFails({1}, RetryTexts, {NoLlm}, MaxSubmissions)
    \/ CmdQuizDelete({2}, {"q1"})

SpecRetry == InitRetry /\ [][NextRetry]_vars

(***************************************************************************)
(* SpecProgress: one student on a fixed list [q1, q2 hidden, q3], with     *)
(* /quiz, /skip and submissions graded false, by fallback, or true.  Wrong *)
(* submissions are capped; a submission graded true is always possible     *)
(* and, by weak fairness, eventually made.                                 *)
(***************************************************************************)
ProgressWrong == {LlmRaise, LlmReply(L_false, 7)}
ProgressRight == {LlmReply(L_true, 7)}

InitProgress == InitSkip

GradedWrong == TextMessage({3}, {"private"}, {T_5}, ProgressWrong, MaxSubmissions)

GradedRight ==
    TextMessage({3}, {"private"}, {T_5}, ProgressRight,
                MaxSubmissions + Len(ScenarioQuizzes))

NextProgress ==
    \/ CmdQuiz({3}, {"private"})
    \/ CmdSkip({3}, {"private"})
    \/ GradedWrong
    \/ GradedRight

SpecProgress == InitProgress /\ [][NextProgress]_vars /\ WF_vars(GradedRight)

(***************************************************************************)
(* Observers used by the properties                                        *)
(***************************************************************************)
AllIds == {"q1", "q2", "q3"}

Range(f) == {f[i] : i \in DOMAIN f}

ResultsOf(st, u) == IF u \in DOMAIN st THEN st[u].results ELSE EmptyMap
AnswersOf(st, u, q) ==
    IF u \in DOMAIN st /\ q \in DOMAIN st[u].answers THEN st[u].answers[q] ELSE <<>>
ActiveOf(st, u) == IF u \in DOMAIN st THEN st[u].active_quiz_id ELSE Null

\* persisted results[q].correct / results[q].attempts of user u
Solved(st, u, q) ==
    /\ u \in DOMAIN st /\ q \in DOMAIN st[u].results
    /\ st[u].results[q].correct
AttemptCount(st, u, q) ==
    IF u \in DOMAIN st /\ q \in DOMAIN st[u].results
    THEN st[u].results[q].attempts ELSE 0

\* ctx is a bare text sent by u in a private chat
IsText(ctx, u) ==
    ctx.kind = "message" /\ ctx.user_id = u /\ ctx.cmd = "" /\ ctx.chat_type = "private"

\* ctx is the command cmd sent by u in a private chat
IsCmd(ctx, u, cmd) ==
    ctx.kind = "message" /\ ctx.user_id = u /\ ctx.cmd = cmd /\ ctx.chat_type = "private"

Judged(lg) == \E e \in Range(lg) : e.k = "judge"

\* ids of the quizzes of qs, and of those not hidden
Ids(qs)      == {qs[i].id : i \in 1..Len(qs)}
ShownIds(qs) ==
    {qs[i].id : i \in {j \in 1..Len(qs) : ~("hidden" \in DOMAIN qs[j] /\ qs[j].hidden)}}

\* s without its leading and trailing whitespace
Trim(s) ==
    LET keep == {i \in 1..Len(s) : s[i] \notin {" ", "\n", "\t"}}
    IN  IF keep = {} THEN <<>>
        ELSE SubSeq(s, CHOOSE i \in keep : \A j \in keep : i <= j,
                       CHOOSE i \in keep : \A j \in keep : i >= j)

\* the messages only the wizard sends
WizardKinds ==
    {"wizard_need_question", "wizard_ask_answer", "wizard_need_answer",
     "wizard_edit_aborted", "wizard_create_aborted", "wizard_saved", "wizard_updated"}

WizardSpoke(lg) == \E e \in Range(lg) : e.k = "send" /\ e.msg \in WizardKinds

\* judge behaviours that yield no verdict: an exception or timeout, an empty
\* reply, a reply that does not start with a true/false token
FailingLlms ==
    {[raises |-> TRUE, content |-> <<>>, total_tokens |-> 0],
     [raises |-> FALSE, content |-> <<>>, total_tokens |-> 7],
     [raises |-> FALSE, content |-> <<"m", "a", "y", "b", "e">>, total_tokens |-> 7],
     [raises |-> FALSE, content |-> <<"n", "o", "t", " ", "t", "r", "u", "e">>,
      total_tokens |-> 7]}

IdSeq(qs) == [i \in 1..Len(qs) |-> qs[i].id]

Min(S) == CHOOSE i \in S : \A j \in S : i <= j
Max(S) == CHOOSE i \in S : \A j \in S : i >= j

\* quiz ids whose question the handler sent to u
Served(lg, u) ==
    {e.q : e \in {x \in Range(lg) :
                     x.k = "send" /\ x.to = u /\ x.msg \in {"question", "in_progress"}}}
Sent(lg, to, msg) == \E e \in Range(lg) : e.k = "send" /\ e.to = to /\ e.msg = msg

(***************************************************************************)
(* C1  No backsliding: once results[qid].correct is true for a user, no    *)
(* later step sets it back to false.                                       *)
(***************************************************************************)
C1_NoBacksliding ==
    [][\A u \in Users, q \in AllIds :
          Solved(quiz_state, u, q) => Solved(quiz_state', u, q)]_vars

(***************************************************************************)
(* C2  Monotonic attempts: attempts of a (user, quiz) never decreases; a   *)
(* graded submission, correct or not, raises it by exactly 1 and nothing   *)
(* else changes it; a correct submission after N incorrect ones (and no    *)
(* other) leaves attempts = N + 1.                                         *)
(***************************************************************************)
AllIncorrect(h) == \A i \in 1..Len(h) : ~h[i].correct

C2_MonotonicAttempts ==
    [][\A u \in Users, q \in AllIds :
          LET before == AttemptCount(quiz_state, u, q)
              after  == AttemptCount(quiz_state', u, q)
              prior  == AnswersOf(quiz_state, u, q)
              graded == /\ IsText(ev', u) /\ Judged(log')
                        /\ ActiveOf(quiz_state, u) = q
          IN  /\ after >= before
              /\ graded => after = before + 1
              /\ ~graded => after = before
              /\ (graded /\ Sent(log', u, "correct") /\ AllIncorrect(prior))
                    => after = Len(prior) + 1]_vars

C2_Witness ==
    \E u \in Users, q \in AllIds :
        /\ IsText(ev, u) /\ Sent(log, u, "correct")
        /\ Solved(quiz_state, u, q) /\ AttemptCount(quiz_state, u, q) = 2
        /\ Len(AnswersOf(quiz_state, u, q)) = 2
        /\ ~AnswersOf(quiz_state, u, q)[1].correct

(***************************************************************************)
(* C5  Hidden-quiz exclusion: a /quiz, /skip or answer step never moves    *)
(* active_quiz_id to a quiz that is hidden at that time, every question it *)
(* serves is a visible quiz that becomes the active one, and /quiz with no *)
(* resumable active quiz selects the first visible unsolved quiz of the    *)
(* list, so a quiz made visible is eligible for the very next selection.   *)
(***************************************************************************)
C5_HiddenExclusion ==
    [][\A u \in Users :
          LET selecting == \/ IsCmd(ev', u, "/quiz") \/ IsCmd(ev', u, "/skip")
                           \/ IsText(ev', u)
              old   == ActiveOf(quiz_state, u)
              new   == ActiveOf(quiz_state', u)
              shown == ShownIds(quizzes)
              open  == {i \in 1..Len(quizzes) :
                          /\ quizzes[i].id \in shown
                          /\ ~Solved(quiz_state, u, quizzes[i].id)}
          IN  selecting =>
                /\ (new # old /\ new # Null) => new \in shown
                /\ \A e \in Range(log') :
                      (e.k = "send" /\ e.msg = "question") => (e.q \in shown /\ new = e.q)
                /\ (IsCmd(ev', u, "/quiz") /\ old \notin shown /\ open # {})
                      => new = quizzes[Min(open)].id]_vars

\* /quiz served q2 while the unsolved q1, earlier in the list, is hidden
C5_Witness ==
    \E u \in Users :
        /\ IsCmd(ev, u, "/quiz") /\ Served(log, u) = {"q2"}
        /\ ActiveOf(quiz_state, u) = "q2"
        /\ "q1" \in Ids(quizzes) \ ShownIds(quizzes)
        /\ ~Solved(quiz_state, u, "q1")

C7_SelfHeal ==
    [][\A u \in Users :
          LET old      == ActiveOf(quiz_state, u)
              new      == ActiveOf(quiz_state', u)
              dangling == old # Null /\ old \notin Ids(quizzes)
              reads    == \/ IsCmd(ev', u, "/quiz") /\ ~Sent(log', u, "no_quizzes")
                          \/ IsCmd(ev', u, "/skip")
                          \/ IsText(ev', u)
          IN  (dangling /\ reads) => (new = Null \/ new \in Ids(quizzes'))]_vars

(***************************************************************************)
(* C3  Quiz id uniqueness and immutability: after every step (wizard       *)
(* create and edit commits, deletes, hidden toggles, broadcasts, by either *)
(* admin) no two quizzes of the repository share an id, and the sequence   *)
(* of ids is the one before the step, that sequence with one new id        *)
(* appended, or that sequence with one id removed: a quiz that stays keeps *)
(* its id.                                                                 *)
(***************************************************************************)
C3_IdsUniqueImmutable ==
    [][LET old == IdSeq(quizzes)
           new == IdSeq(quizzes')
       IN  /\ \A i, j \in 1..Len(new) : new[i] = new[j] => i = j
           /\ \/ new = old
              \/ \E x \in AllIds \ Range(old) : new = Append(old, x)
              \/ \E x \in Range(old) : new = SelectSeq(old, LAMBDA y : y # x)]_vars

\* a create wizard has just committed a second quiz
C3_Witness ==
    \E a \in Users :
        /\ IsText(ev, a) /\ Sent(log, a, "wizard_saved")
        /\ Len(quizzes) = 2 /\ quizzes[1].id # quizzes[2].id

(***************************************************************************)
(* C4  Wizard race abort (create): when an admin's create session awaits   *)
(* its answer and the repository already holds a quiz with the session's   *)
(* id, the admin's next non-blank text leaves the repository unchanged,    *)
(* clears the session and sends the error message.                         *)
(***************************************************************************)
C4_CreateRaceAbort ==
    [][\A a \in Users :
          LET sess    == wizard[a]
              raced   == /\ sess.stage = "await_answer" /\ sess.mode = "create"
                         /\ sess.quiz_id \in Ids(quizzes)
              answers == IsText(ev', a) /\ Trim(ev'.text) # <<>>
          IN  (raced /\ answers)
                => /\ quizzes' = quizzes
                   /\ wizard'[a].stage = "none"
                   /\ Sent(log', a, "wizard_create_aborted")]_vars

C4_Witness ==
    \E a \in Users :
        /\ IsText(ev, a) /\ Sent(log, a, "wizard_create_aborted")
        /\ wizard[a].stage = "none"
        /\ \E e \in Range(log) : e.msg = "wizard_create_aborted" /\ e.q \in Ids(quizzes)

(***************************************************************************)
(* C8  Dispatch precedence: a bare private text of an admin who has a      *)
(* wizard session is answered by the wizard, is not graded and leaves      *)
(* quiz_state untouched, whether or not the admin has an active quiz.  Any *)
(* other message (non-admin, group chat, command, no session) gets no      *)
(* wizard reply and moves no session to the answer stage; if it is a bare  *)
(* text it changes neither the sessions nor the repository.                *)
(***************************************************************************)
C8_DispatchPrecedence ==
    [][ev'.kind = "message" =>
          LET u == ev'.user_id
              forWizard == /\ ev'.cmd = "" /\ ev'.chat_type = "private"
                           /\ u \in AdminUsers /\ wizard[u].stage # "none"
          IN  /\ forWizard
                    => /\ ~Judged(log') /\ quiz_state' = quiz_state
                       /\ WizardSpoke(log')
              /\ ~forWizard
                    => /\ ~WizardSpoke(log')
                       /\ ev'.cmd = "" => (wizard' = wizard /\ quizzes' = quizzes)
                       /\ \A a \in Users : wizard'[a].stage = "await_answer"
                                               => wizard[a].stage = "await_answer"]_vars

\* the admin's text "4" went to the wizard although "4" answers the admin's
\* own active quiz
C8_Witness ==
    /\ IsText(ev, 1) /\ ev.text = <<"4">>
    /\ Sent(log, 1, "wizard_ask_answer") /\ ~Judged(log)
    /\ ActiveOf(quiz_state, 1) = "q1" /\ ~Solved(quiz_state, 1, "q1")
    /\ \E i \in 1..Len(quizzes) : quizzes[i].id = "q1" /\ quizzes[i].answer = <<"4">>

(***************************************************************************)
(* C9  Grading fallback determinism: when a submission is graded and the   *)
(* judge yields no verdict, the verdict is                                 *)
(* trim(student answer) = trim(reference answer), compared exactly, the    *)
(* usage returned is 0 and no token usage is logged.                       *)
(***************************************************************************)
C9_FallbackVerdict ==
    [][\A u \in Users :
          LET q   == ActiveOf(quiz_state, u)
              at  == {i \in 1..Len(quizzes) : quizzes[i].id = q}
              ref == quizzes[Min(at)].answer
          IN  (IsText(ev', u) /\ Judged(log') /\ ev'.llm \in FailingLlms)
                => \A e \in Range(log') :
                      /\ e.k # "token_log"
                      /\ e.k = "judge"
                            => /\ e.n = 0
                               /\ (e.msg = "true") = (Trim(ev'.text) = Trim(ref))]_vars

\* reference "Paris", answer "paris ", judge down: graded incorrect, usage 0
C9_Witness ==
    /\ IsText(ev, 1) /\ ev.llm \in FailingLlms
    /\ ev.text = <<"p", "a", "r", "i", "s", " ">>
    /\ quizzes[1].answer = <<"P", "a", "r", "i", "s">>
    /\ Sent(log, 1, "incorrect")
    /\ \E e \in Range(log) : e.k = "judge" /\ e.msg = "false" /\ e.n = 0

(***************************************************************************)
(* C10  End-to-end scenario: from the repository [q1 visible "4", q2       *)
(* hidden, q3 visible "Paris"] and no progress, with the judge never       *)
(* returning a verdict, after /quiz the active quiz is q1; after "4", q1   *)
(* is correct with attempts 1 and the active quiz is q3, q2 untouched;     *)
(* after "paris", q3 is incorrect with attempts 1 and still active; after  *)
(* "Paris", q3 is correct with attempts 2, active_quiz_id is null and the  *)
(* all-complete message was sent.                                          *)
(***************************************************************************)
C10_Scenario ==
    /\ scen = "s1"
          => /\ ActiveOf(quiz_state, 3) = "q1"
             /\ ResultsOf(quiz_state, 3) = EmptyMap
    /\ scen = "s2"
          => /\ Solved(quiz_state, 3, "q1") /\ AttemptCount(quiz_state, 3, "q1") = 1
             /\ ActiveOf(quiz_state, 3) = "q3"
             /\ DOMAIN ResultsOf(quiz_state, 3) = {"q1"}
             /\ Served(log, 3) = {"q3"}
    /\ scen = "s3"
          => /\ "q3" \in DOMAIN ResultsOf(quiz_state, 3)
             /\ ~Solved(quiz_state, 3, "q3") /\ AttemptCount(quiz_state, 3, "q3") = 1
             /\ ActiveOf(quiz_state, 3) = "q3"
    /\ scen = "s4"
          => /\ Solved(quiz_state, 3, "q1") /\ AttemptCount(quiz_state, 3, "q1") = 1
             /\ Solved(quiz_state, 3, "q3") /\ AttemptCount(quiz_state, 3, "q3") = 2
             /\ ActiveOf(quiz_state, 3) = Null
             /\ Sent(log, 3, "all_complete")

C10_Witness ==
    /\ scen = "s4"
    /\ Solved(quiz_state, 3, "q3") /\ AttemptCount(quiz_state, 3, "q3") = 2
    /\ ActiveOf(quiz_state, 3) = Null

(***************************************************************************)
(* C11  Atomic store writes: at every step of a save, and when the process *)
(* is killed at any of them, each store's file is absent or holds a        *)
(* complete document, and a step leaves it holding what it held before     *)
(* (the previous document) or the whole document being saved.              *)
(***************************************************************************)
CompleteDoc(d) == Len(d) = 3 /\ d[1] = "{" /\ d[3] = "}"

Target(store) == <<store, "json">>

HeldBy(fs, store) == IF Target(store) \in DOMAIN fs THEN fs[Target(store)] ELSE <<>>

C11_AtomicWrites ==
    [][\A store \in {"quizzes", "quiz_state", "users"} :
          LET old == HeldBy(files, store)
              new == HeldBy(files', store)
          IN  /\ new # <<>> => CompleteDoc(new)
              /\ new = old \/ (save.store = store /\ new = save.doc /\ CompleteDoc(new))
              /\ (Target(store) \in DOMAIN files) => (Target(store) \in DOMAIN files')]_vars

\* killed in the middle of writing version b over a stored version a: the
\* temp file holds a prefix, the target still holds a
C11_Witness ==
    \E store \in {"quizzes", "quiz_state", "users"} :
        /\ save.pc = "idle"
        /\ HeldBy(files, store) = <<"{", "a", "}">>
        /\ <<store, "json.tmp">> \in DOMAIN files
        /\ files[<<store, "json.tmp">>] = <<"{", "b">>

(***************************************************************************)
(* C12  Round-trip persistence: the document written by saving what was    *)
(* loaded from a saved document equals that document, and loading a saved  *)
(* document returns its content unaltered.                                 *)
(***************************************************************************)
C12_RoundTrip ==
    [][/\ (mem.phase = "loaded" /\ mem'.phase = "resaved") => doc' = doc
       /\ (mem.phase = "saved" /\ mem'.phase = "loaded") => mem'.x = doc.x]_vars

\* a two-item quiz list that the first save had to normalize, saved again
C12_Witness ==
    /\ mem.phase = "resaved" /\ mem.store = "quizzes"
    /\ Len(mem.input) = 2 /\ Len(doc.x) = 2
    /\ doc.x # mem.input

(***************************************************************************)
(* C13  Persistence failure is reported: whenever a handler's write of the *)
(* quiz repository or of the progress store fails, the user who triggered  *)
(* the event receives an explicit could-not-save message.                  *)
(***************************************************************************)
WriteFailed(lg) ==
    \E i \in DOMAIN lg : lg[i].k \in {"save_state", "save_quizzes"} /\ lg[i].msg = "fail"

ToldCouldNotSave(lg, ctx) ==
    \E i \in DOMAIN lg :
        \/ lg[i].k = "send" /\ lg[i].to = ChatOf(ctx) /\ lg[i].msg = "save_failed"
        \/ lg[i].k = "answer_callback" /\ lg[i].msg = "save_failed"

C13_FailureReported == WriteFailed(log) => ToldCouldNotSave(log, ev)

(***************************************************************************)
(* C14  The core never throws uncaught: every failure met while handling   *)
(* an event (a store write that raises, a judge call that returns no       *)
(* verdict) ends in a message visible to the user who triggered the event. *)
(***************************************************************************)
UserSaw(lg, ctx) ==
    \E i \in DOMAIN lg :
        \/ lg[i].k = "send" /\ lg[i].to = ChatOf(ctx)
        \/ lg[i].k = "answer_callback"

C14_FailureVisible ==
    (WriteFailed(log) \/ (Judged(log) /\ JudgeFails(ev.llm))) => UserSaw(log, ev)

(***************************************************************************)
(* C15  Authorization: a user who is not an admin and sends /quiz_create,  *)
(* /quiz_delete, /quiz_ask, /quiz_list or /quiz_admin_stat, or presses any *)
(* quiz button, gets a visible rejection and nothing else; the repository, *)
(* the wizard map and every user's progress stay as they were.             *)
(***************************************************************************)
Rejection(lg, ctx) ==
    IF ctx.kind = "callback"
    THEN lg = <<AnswerCb("admin_only")>>
    ELSE \/ lg = <<Reply(ctx, "admin_only")>>
         \/ lg = <<Reply(ctx, "private_only")>>

AdminOnlyEvent(ctx) ==
    \/ ctx.kind = "callback"
    \/ ctx.kind = "message" /\ ctx.cmd \in AdminCmds

C15_Authorization ==
    [][(ev'.user_id \notin AdminUsers /\ AdminOnlyEvent(ev'))
          => /\ Rejection(log', ev')
             /\ quizzes' = quizzes
             /\ wizard' = wizard
             /\ quiz_state' = quiz_state]_vars

\* the student is turned away from a button while the admin has a wizard
\* session open and the student has progress stored
C15_Witness ==
    /\ ev.user_id = 3 /\ ev.kind = "callback" /\ ev.cmd = "toggle_hidden"
    /\ log = <<AnswerCb("admin_only")>>
    /\ HasSession(1)
    /\ 3 \in DOMAIN quiz_state /\ quiz_state[3].active_quiz_id = "q1"

(***************************************************************************)
(* C16  Delete cancels wizard sessions: after a successful /quiz_delete of *)
(* an id, no wizard session of any admin still references that id.         *)
(***************************************************************************)
Deleted(ctx, lg) ==
    /\ ctx.kind = "message" /\ ctx.cmd = "/quiz_delete"
    /\ \E e \in Range(lg) : e.k = "send" /\ e.msg = "deleted" /\ e.q = ctx.args

C16_DeleteCancelsSessions ==
    [][Deleted(ev', log') => \A u \in Users : wizard'[u].quiz_id # ev'.args]_vars

(***************************************************************************)
(* C17  Single-writer dispatch: updates are handled one at a time in the   *)
(* order of the poll.  A handler starts only when no other handler is      *)
(* running; every write of a store is made by the one running handler,     *)
(* extends what the store held by that handler's update, and follows the   *)
(* update ids in increasing order.                                         *)
(***************************************************************************)
LastOf(s) == IF s = <<>> THEN 0 ELSE s[Len(s)]

RunningIds(l) == {h.id : h \in l.running}

C17_SingleWriter ==
    [][/\ Cardinality(loop'.running) <= 1
       /\ RunningIds(loop') \ RunningIds(loop) # {} => loop.running = {}
       /\ loop'.store # loop.store
             => \E h \in loop.running :
                   /\ loop'.store = Append(loop.store, h.id)
                   /\ LastOf(loop.store) < h.id]_vars

\* the second update of a batch is being handled after the first one wrote
C17_Witness ==
    /\ Len(loop.batch) >= 2 /\ loop.pos = 2 /\ loop.pc = "call"
    /\ loop.store = <<1>>
    /\ \E h \in loop.running : h.id = 2 /\ h.phase = "loaded"

(***************************************************************************)
(* C18  /quiz with a resolvable active quiz: when the sender's             *)
(* active_quiz_id names a quiz of the repository, /quiz in a private chat  *)
(* resends that quiz's question and nothing else, and the progress store   *)
(* is neither changed nor written.                                         *)
(***************************************************************************)
ResentActive(u) ==
    /\ log' = <<ReplyQ(ev', "in_progress", ActiveOf(quiz_state, u))>>
    /\ quiz_state' = quiz_state

Stale(u) ==
    LET a == ActiveOf(quiz_state, u)
    IN  /\ a # Null
        /\ \/ a \notin Ids(quizzes)
           \/ a \notin ShownIds(quizzes) /\ u \notin AdminUsers

C19_StaleActiveCleared ==
    [][\A u \in Users :
          (IsText(ev', u) /\ ~HasSession(u) /\ Stale(u))
             => /\ quiz_state' = [quiz_state EXCEPT ![u].active_quiz_id = Null]
                /\ log' = <<SaveStateEff(TRUE)>>
                /\ quizzes' = quizzes]_vars

\* the student answered q1 wrongly once, q1 was hidden, the next text
\* cleared the reference and left the recorded attempt alone
C19_Witness ==
    /\ IsText(ev, 3) /\ log = <<SaveStateEff(TRUE)>>
    /\ ActiveOf(quiz_state, 3) = Null
    /\ AttemptCount(quiz_state, 3, "q1") = 1
    /\ Len(AnswersOf(quiz_state, 3, "q1")) = 1
    /\ "q1" \in Ids(quizzes) \ ShownIds(quizzes)

(***************************************************************************)
(* C20  Incorrect answer: when the verdict on an answer is "incorrect",    *)
(* active_quiz_id stays, results of the quiz are persisted as correct =    *)
(* false with attempts one more than before, and the user gets exactly one *)
(* message, which carries the new attempt count.                           *)
(***************************************************************************)
JudgedIncorrect(lg) == \E e \in Range(lg) : e.k = "judge" /\ e.msg = "false"

SendsOf(lg) == SelectSeq(lg, LAMBDA e : e.k = "send")

C20_IncorrectAnswer ==
    [][\A u \in Users :
          (IsText(ev', u) /\ JudgedIncorrect(log'))
             => LET a == ActiveOf(quiz_state, u)
                    n == AttemptCount(quiz_state, u, a) + 1
                IN  /\ a # Null
                    /\ ActiveOf(quiz_state', u) = a
                    /\ quiz_state'[u].results[a] = [correct |-> FALSE, attempts |-> n]
                    /\ \E e \in Range(log') : e = SaveStateEff(TRUE)
                    /\ SendsOf(log') = <<[n |-> n, to |-> u, msg |-> "incorrect",
                                          q |-> a, k |-> "send"]>>]_vars

\* the student's second wrong answer to q1
C20_Witness ==
    /\ IsText(ev, 3) /\ JudgedIncorrect(log)
    /\ ActiveOf(quiz_state, 3) = "q1"
    /\ AttemptCount(quiz_state, 3, "q1") = 2
    /\ ~Solved(quiz_state, 3, "q1")
    /\ \E e \in Range(log) : e.k = "send" /\ e.msg = "incorrect" /\ e.n = 2

(***************************************************************************)
(* C21  A correct answer advances to the next unsolved quiz: after a       *)
(* submission graded correct, active_quiz_id is the first quiz, in the     *)
(* order of the persisted list, that is not hidden and that the user has   *)
(* not solved, or null when there is none; it is never the quiz that was   *)
(* just answered.                                                          *)
(***************************************************************************)
JudgedCorrect(lg) == \E e \in Range(lg) : e.k = "judge" /\ e.msg = "true"

FirstOpen(qs, st, u) ==
    LET open == {i \in 1..Len(qs) : qs[i].id \in ShownIds(qs) /\ ~Solved(st, u, qs[i].id)}
    IN  IF open = {} THEN Null ELSE qs[Min(open)].id

C21_AdvanceToNextUnsolved ==
    [][\A u \in Users :
          (IsText(ev', u) /\ JudgedCorrect(log'))
             => /\ ActiveOf(quiz_state', u) = FirstOpen(quizzes', quiz_state', u)
                /\ ActiveOf(quiz_state', u) # ActiveOf(quiz_state, u)
                /\ Solved(quiz_state', u, ActiveOf(quiz_state, u))]_vars

\* q3 was solved with q1 and q2 both open: the student is sent back to q1
C21_Witness ==
    /\ IsText(ev, 3) /\ JudgedCorrect(log)
    /\ Solved(quiz_state, 3, "q3")
    /\ ~Solved(quiz_state, 3, "q1") /\ ~Solved(quiz_state, 3, "q2")
    /\ ShownIds(quizzes) = {"q1", "q2", "q3"}
    /\ ActiveOf(quiz_state, 3) = "q1"

(***************************************************************************)
(* C22  Message ordering on a correct answer: a submission graded correct  *)
(* sends the user exactly two messages, first the "correct"                *)
(* acknowledgment, then the question of the new active quiz or, when there *)
(* is none, the completion message; the progress store is saved before the *)
(* first of them is sent.                                                  *)
(***************************************************************************)
SavedBeforeSends(lg) ==
    \E i \in DOMAIN lg :
        /\ lg[i].k = "save_state" /\ lg[i].msg = "ok"
        /\ \A j \in DOMAIN lg : lg[j].k = "send" => i < j

C22_CorrectAnswerOrdering ==
    [][\A u \in Users :
          (IsText(ev', u) /\ JudgedCorrect(log'))
             => LET sends == SendsOf(log')
                    a == ActiveOf(quiz_state', u)
                IN  /\ Len(sends) = 2
                    /\ sends[1] = Send(u, "correct", Null, 0)
                    /\ sends[2] = IF a = Null THEN Send(u, "all_complete", Null, 0)
                                  ELSE Send(u, "question", a, 0)
                    /\ SavedBeforeSends(log')]_vars

\* the judge itself accepted the answer, its tokens were logged, and q2
\* was sent after the acknowledgment
C22_Witness ==
    /\ IsText(ev, 3) /\ JudgedCorrect(log)
    /\ Len(log) = 5
    /\ log[2].k = "token_log" /\ log[3].k = "save_state"
    /\ log[4].msg = "correct" /\ log[5].msg = "question" /\ log[5].q = "q2"

(***************************************************************************)
(* C23  /skip never dead-ends: when the sender has an active quiz and some *)
(* visible quiz is unsolved, after /skip the active quiz is a visible      *)
(* unsolved quiz; when a visible unsolved quiz other than the active one   *)
(* exists, the new active quiz differs from the old one and is the first   *)
(* such quiz in list order.                                                *)
(***************************************************************************)
IsSkip(ctx, u) == ctx.kind = "message" /\ ctx.user_id = u /\ ctx.cmd = "/skip"

\* positions of the visible quizzes u has not solved
OpenAt(qs, st, u) ==
    {i \in 1..Len(qs) : qs[i].id \in ShownIds(qs) /\ ~Solved(st, u, qs[i].id)}

SkipMovesOn(u) ==
    LET a == ActiveOf(quiz_state, u)
        open == OpenAt(quizzes, quiz_state, u)
        others == {i \in open : quizzes[i].id # a}
    IN  (a # Null /\ open # {})
           => /\ ActiveOf(quiz_state', u) \in {quizzes[i].id : i \in open}
              /\ others # {} => ActiveOf(quiz_state', u) = quizzes[Min(others)].id

SkipFrame(u) ==
    /\ \A v \in Users, q \in AllIds :
          /\ ResultsOf(quiz_state', v) = ResultsOf(quiz_state, v)
          /\ AnswersOf(quiz_state', v, q) = AnswersOf(quiz_state, v, q)
    /\ (ActiveOf(quiz_state, u) = Null \/ OpenAt(quizzes, quiz_state, u) = {})
          => /\ quiz_state' = quiz_state
             /\ quizzes' = quizzes
             /\ log' = <<>>

OthersKept(u) ==
    \A v \in Users \ {u} :
        /\ (v \in DOMAIN quiz_state') = (v \in DOMAIN quiz_state)
        /\ v \in DOMAIN quiz_state => quiz_state'[v] = quiz_state[v]

C25_QuizAskOverride ==
    [][\A u \in AdminUsers :
          (IsCmd(ev', u, "/quiz_ask") /\ ev'.args # Null)
             => /\ quizzes' = quizzes
                /\ IF ev'.args \in Ids(quizzes)
                   THEN /\ ActiveOf(quiz_state', u) = ev'.args
                        /\ ResultsOf(quiz_state', u) = ResultsOf(quiz_state, u)
                        /\ \A q \in AllIds :
                              AnswersOf(quiz_state', u, q) = AnswersOf(quiz_state, u, q)
                        /\ OthersKept(u)
                        /\ SendsOf(log') = <<Send(u, "question", ev'.args, 0)>>
                   ELSE quiz_state' = quiz_state]_vars

\* admin 1 is asked q1 again, which the admin has solved and which is
\* hidden by now, while student 3 has progress of their own
C25_Witness ==
    /\ IsCmd(ev, 1, "/quiz_ask") /\ ev.args = "q1"
    /\ ActiveOf(quiz_state, 1) = "q1"
    /\ Solved(quiz_state, 1, "q1")
    /\ "q1" \in Ids(quizzes) \ ShownIds(quizzes)
    /\ ActiveOf(quiz_state, 3) = "q2"

(***************************************************************************)
(* C26  Wizard stage protocol                                              *)
(***************************************************************************)
\* ctx opens a session for u: /quiz_create or the edit button
StartsSession(ctx, u) ==
    \/ IsCmd(ctx, u, "/quiz_create")
    \/ ctx.kind = "callback" /\ ctx.user_id = u /\ ctx.cmd = "edit"

\* the single message of lg is the reprompt of the given stage, sent to u
Reprompted(lg, u, stage) ==
    /\ Len(lg) = 1
    /\ lg[1].k = "send"
    /\ lg[1].to = u
    /\ lg[1].msg = (IF stage = "await_question" THEN "wizard_need_question"
                                                ELSE "wizard_need_answer")

\* C26: a session in await_question moves to await_answer exactly when its
\* admin writes a text that is not empty after trimming, and that trimmed text
\* is staged as the question with the id and mode kept; an empty text in
\* either stage leaves every session and the repository unchanged and sends
\* the reprompt of the stage; a session leaves await_answer for
\* await_question only when its admin starts a new session; and a text
\* changes the repository only when its author's session is in await_answer.
C26_WizardStageProtocol ==
    [][ /\ \A u \in AdminUsers :
            /\ wizard[u].stage = "await_question" =>
                  /\ wizard'[u].stage = "await_answer"
                        <=> (IsText(ev', u) /\ Trim(ev'.text) # <<>>)
                  /\ wizard'[u].stage = "await_answer" =>
                        /\ wizard'[u] = Session("await_answer", wizard[u].quiz_id,
                                                wizard[u].mode, Trim(ev'.text))
                        /\ quizzes' = quizzes
            /\ (HasSession(u) /\ IsText(ev', u) /\ Trim(ev'.text) = <<>>) =>
                  /\ wizard' = wizard
                  /\ quizzes' = quizzes
                  /\ Reprompted(log', u, wizard[u].stage)
            /\ (wizard[u].stage = "await_answer" /\ wizard'[u].stage = "await_question")
                  => StartsSession(ev', u)
        /\ (ev'.kind = "message" /\ ev'.cmd = "" /\ quizzes' # quizzes) =>
              /\ ev'.user_id \in AdminUsers
              /\ wizard[ev'.user_id].stage = "await_answer"
              /\ IsText(ev', ev'.user_id)
              /\ Trim(ev'.text) # <<>> ]_vars

\* admin 1 has just staged the padded text " Paris\n" as the question of q3
C26_Witness ==
    /\ IsText(ev, 1)
    /\ ev.text = T_Paris_sp
    /\ wizard[1] = Session("await_answer", "q3", "create", T_Paris)
    /\ \E e \in Range(log) : e.k = "send" /\ e.msg = "wizard_ask_answer"

(***************************************************************************)
(* C27  Wizard create commit                                               *)
(***************************************************************************)
\* the step is u's non-empty text, written with the disk working, while u's
\* session of the given mode awaits the answer
AnswerStep(u, mode) ==
    /\ wizard[u].stage = "await_answer"
    /\ wizard[u].mode = mode
    /\ IsText(ev', u)
    /\ Trim(ev'.text) # <<>>
    /\ ev'.disk_ok

\* C27: a non-empty answer to a create session whose id is still free appends
\* exactly the quiz {id, staged question, trimmed answer, processed = false,
\* hidden = false} at the end of the repository, every quiz that was there
\* stays as it was and where it was, and the session is cleared.
C27_WizardCreateCommit ==
    [][\A u \in AdminUsers :
          (AnswerStep(u, "create") /\ wizard[u].quiz_id \notin Ids(quizzes)) =>
              /\ quizzes' = Append(quizzes,
                                   [id |-> wizard[u].quiz_id,
                                    question |-> wizard[u].question,
                                    answer |-> Trim(ev'.text),
                                    processed |-> FALSE, hidden |-> FALSE])
              /\ wizard'[u] = NoSession]_vars

\* admin 1 has just answered "4" to the create session of q3 whose staged
\* question was "Paris": q3 is the third quiz, after q1 and q2
C27_Witness ==
    /\ IsText(ev, 1)
    /\ ev.text = T_4
    /\ \E e \in Range(log) : e.k = "send" /\ e.msg = "wizard_saved"
    /\ IdSeq(quizzes) = <<"q1", "q2", "q3">>
    /\ quizzes[3].question = T_Paris
    /\ quizzes[3].answer = T_4
    /\ wizard[1] = NoSession

(***************************************************************************)
(* C28  Wizard edit commit frame                                           *)
(***************************************************************************)
\* C28: a non-empty answer to an edit session whose quiz is still there
\* replaces the question and the answer of that quiz by the staged question
\* and the trimmed text; its id, processed and hidden flags and its place in
\* the list, every other quiz, and the progress of every user stay as they
\* were, and the session is cleared.
C28_WizardEditFrame ==
    [][\A u \in AdminUsers :
          (AnswerStep(u, "edit") /\ wizard[u].quiz_id \in Ids(quizzes)) =>
              /\ Len(quizzes') = Len(quizzes)
              /\ \A i \in 1..Len(quizzes) :
                    quizzes'[i] =
                        IF quizzes[i].id = wizard[u].quiz_id
                        THEN [quizzes[i] EXCEPT !.question = wizard[u].question,
                                                !.answer = Trim(ev'.text)]
                        ELSE quizzes[i]
              /\ quiz_state' = quiz_state
              /\ wizard'[u] = NoSession]_vars

\* admin 1 has just rewritten q1, which was sent and hidden and which student
\* 3 has failed once: it is still first, still sent and hidden
C28_Witness ==
    /\ IsText(ev, 1)
    /\ ev.text = T_4
    /\ \E e \in Range(log) : e.k = "send" /\ e.msg = "wizard_updated"
    /\ IdSeq(quizzes) = <<"q1", "q2">>
    /\ quizzes[1] = [id |-> "q1", question |-> T_Paris, answer |-> T_4,
                     processed |-> TRUE, hidden |-> TRUE]
    /\ AttemptCount(quiz_state, 3, "q1") = 1
    /\ wizard[1] = NoSession

(***************************************************************************)
(* C29  Wizard edit race abort                                             *)
(***************************************************************************)
\* C29: a non-empty answer to an edit session whose quiz is no longer in the
\* repository leaves the repository as it is (the quiz is not created
\* again), clears the session and sends the admin the message that the edit
\* was cancelled, and nothing else.
C29_WizardEditRaceAbort ==
    [][\A u \in AdminUsers :
          (AnswerStep(u, "edit") /\ wizard[u].quiz_id \notin Ids(quizzes)) =>
              /\ quizzes' = quizzes
              /\ wizard'[u] = NoSession
              /\ Len(log') = 1
              /\ log'[1].k = "send"
              /\ log'[1].to = u
              /\ log'[1].msg = "wizard_edit_aborted"
              /\ log'[1].q = wizard[u].quiz_id]_vars

\* admin 1 has just answered an edit session of q1 after admin 2 deleted q1
C29_Witness ==
    /\ IsText(ev, 1)
    /\ Trim(ev.text) # <<>>
    /\ \E e \in Range(log) : e.k = "send" /\ e.msg = "wizard_edit_aborted" /\ e.q = "q1"
    /\ "q1" \notin Ids(quizzes)
    /\ wizard[1] = NoSession

(***************************************************************************)
(* C30  One wizard session per admin                                       *)
(***************************************************************************)
\* the mode of the session that the step starts for u, or "none": an
\* accepted /quiz_create (private chat, id not in the repository) or an edit
\* button pressed for a quiz that exists
StartedMode(u) ==
    IF IsCmd(ev', u, "/quiz_create") /\ ev'.args # Null /\ ev'.args \notin Ids(quizzes)
    THEN "create"
    ELSE IF ev'.kind = "callback" /\ ev'.user_id = u /\ ev'.cmd = "edit"
            /\ ev'.args \in Ids(quizzes)
    THEN "edit"
    ELSE "none"

\* the session map holds one entry per user: nothing for a user who is not an
\* admin, and for an admin either nothing or one session with an id, a mode
\* and, before the question is given, no staged question
OneSessionEach(wz) ==
    /\ DOMAIN wz = Users
    /\ \A u \in Users :
          /\ wz[u].stage \in {"none", "await_question", "await_answer"}
          /\ wz[u].stage = "none" => wz[u] = NoSession
          /\ wz[u].stage # "none" =>
                /\ u \in AdminUsers
                /\ wz[u].quiz_id # Null
                /\ wz[u].mode \in {"create", "edit"}
          /\ wz[u].stage = "await_question" => wz[u].question = <<>>
          /\ wz[u].stage = "await_answer" => wz[u].question # <<>>

\* C30: every admin has at most one session at any time; when an admin,
\* with or without a session, starts one by /quiz_create for a free id or by
\* the edit button, the admin's session afterwards is a fresh await_question
\* session for the new id and mode with no staged question, and the sessions
\* of all other users are what they were.
C30_OneSessionPerAdmin ==
    [][ /\ OneSessionEach(wizard')
        /\ \A u \in AdminUsers :
              StartedMode(u) # "none" =>
                  /\ wizard'[u] = Session("await_question", ev'.args, StartedMode(u), <<>>)
                  /\ \A v \in Users \ {u} : wizard'[v] = wizard[v] ]_vars

\* admin 1 has just started the create session of q3 while admin 2 is in the
\* middle of an edit session of q1 with a staged question
C30_Witness ==
    /\ IsCmd(ev, 1, "/quiz_create")
    /\ ev.args = "q3"
    /\ wizard[1] = Session("await_question", "q3", "create", <<>>)
    /\ wizard[2] = Session("await_answer", "q1", "edit", T_4)

(***************************************************************************)
(* C31  Answer history is append-only and matches attempts                 *)
(***************************************************************************)
\* C31: starting from an empty progress store, in every step the stored
\* answer history of every user and quiz id keeps its old entries in place;
\* a graded submission adds exactly one entry, the trimmed text with the
\* verdict, to the history of the quiz that was active, whatever the verdict,
\* and no other history changes; and afterwards results[qid].attempts is the
\* length of answers[qid] for every user and quiz id.
C31_AnswerHistory ==
    [][\A u \in Users, q \in AllIds :
          LET old == AnswersOf(quiz_state, u, q)
              new == AnswersOf(quiz_state', u, q)
              graded == IsText(ev', u) /\ Judged(log') /\ q = ActiveOf(quiz_state, u)
          IN  /\ Len(new) >= Len(old)
              /\ SubSeq(new, 1, Len(old)) = old
              /\ graded => new = Append(old, [answer |-> Trim(ev'.text),
                                              correct |-> JudgedCorrect(log')])
              /\ ~graded => new = old
              /\ AttemptCount(quiz_state', u, q) = Len(new)]_vars

\* student 3 has a history of two entries for q1, a wrong answer followed by
\* a right one, and two attempts on record
C31_Witness ==
    /\ IsText(ev, 3)
    /\ Len(AnswersOf(quiz_state, 3, "q1")) = 2
    /\ ~AnswersOf(quiz_state, 3, "q1")[1].correct
    /\ AnswersOf(quiz_state, 3, "q1")[2].correct
    /\ AttemptCount(quiz_state, 3, "q1") = 2

(***************************************************************************)
(* C32  Admin statistics counts                                            *)
(***************************************************************************)
\* the users the report of ctx counts: those of the progress store, and with
\* the course filter on only the members of the course
Counted(ctx, st) ==
    {v \in DOMAIN st : ctx.course_chat => v \in ctx.in_course_users}

\* the figures the report lg gives under the heading what for quiz q
Figures(lg, what, q) ==
    {e.n : e \in {x \in Range(lg) : x.k = "stat_line" /\ x.msg \in what /\ x.q = q}}

\* C32: /quiz_admin_stat of an admin changes neither the repository nor the
\* progress store nor the sessions; when it reports, 'passed all' is the
\* number of counted users whose result is correct for every quiz id of the
\* repository, hidden ones included, 'passed >=1' the number of counted users
\* with a correct result for some quiz of the repository, and the solved
\* figure of each quiz the number of counted users with that quiz correct.
C32_AdminStatCounts ==
    [][\A u \in AdminUsers :
          (ev'.kind = "message" /\ ev'.user_id = u /\ ev'.cmd = "/quiz_admin_stat") =>
              LET counted == Counted(ev', quiz_state)
                  solvers(q) == {v \in counted : Solved(quiz_state, v, q)}
              IN  /\ quizzes' = quizzes
                  /\ quiz_state' = quiz_state
                  /\ wizard' = wizard
                  /\ log' # <<>>
                  /\ (quizzes # <<>> /\ counted # {}) =>
                        /\ Len(SendsOf(log')) = 1
                        /\ Figures(log', {"counted"}, Null) = {Cardinality(counted)}
                        /\ Figures(log', {"passed_all"}, Null) =
                              {Cardinality({v \in counted :
                                               \A q \in Ids(quizzes) : v \in solvers(q)})}
                        /\ Figures(log', {"passed_any"}, Null) =
                              {Cardinality({v \in counted :
                                               \E q \in Ids(quizzes) : v \in solvers(q)})}
                        /\ \A q \in AllIds :
                              Figures(log', {"solved", "solved_hidden"}, q) =
                                  IF q \in Ids(quizzes) THEN {Cardinality(solvers(q))}
                                                        ELSE {}
                  /\ (quizzes = <<>> \/ counted = {}) =>
                        (Len(log') = 1 /\ log'[1].k = "send")]_vars

\* admin 1 has just been told, in a group, that of the two counted users one
\* has passed all quizzes, q2 being hidden and solved by that one user
C32_Witness ==
    /\ ev.kind = "message" /\ ev.user_id = 1 /\ ev.cmd = "/quiz_admin_stat"
    /\ ev.chat_type = "group"
    /\ IdSeq(quizzes) = <<"q1", "q2">>
    /\ "q2" \notin ShownIds(quizzes)
    /\ Figures(log, {"counted"}, Null) = {2}
    /\ Figures(log, {"passed_all"}, Null) = {1}
    /\ Figures(log, {"solved_hidden"}, "q2") = {1}

(***************************************************************************)
(* C33  Processed flag                                                     *)
(***************************************************************************)
\* the quiz q of qs carries the flag
Processed(qs, q) == \E i \in 1..Len(qs) : qs[i].id = q /\ qs[i].processed
Hidden(qs, q)    == \E i \in 1..Len(qs) : qs[i].id = q /\ qs[i].hidden

\* ctx is the button action pressed by an admin for quiz q
IsButton(ctx, action, q) ==
    /\ ctx.kind = "callback"
    /\ ctx.user_id \in AdminUsers
    /\ ctx.cmd = action
    /\ ctx.args = q

\* nothing was sent and no state changed
NothingDone ==
    /\ quizzes' = quizzes
    /\ quiz_state' = quiz_state
    /\ wizard' = wizard
    /\ SendsOf(log') = <<>>

\* C33: the processed flag of a quiz goes from false to true only in a
\* send_all step for that quiz in which no delivery failed; a send_all or
\* send_admins pressed for a hidden quiz, and a send_all pressed for a quiz
\* that is already processed, send nothing and change no state.
C33_ProcessedFlag ==
    [][\A q \in AllIds :
          /\ (~Processed(quizzes, q) /\ Processed(quizzes', q)) =>
                /\ IsButton(ev', "send_all", q)
                /\ \A e \in Range(log') : e.k = "send" => e.msg = "broadcast"
                /\ {e.to : e \in Range(SendsOf(log'))} = ev'.in_course_users
          /\ (Hidden(quizzes, q)
                /\ (IsButton(ev', "send_all", q) \/ IsButton(ev', "send_admins", q)))
                => NothingDone
          /\ (Processed(quizzes, q) /\ IsButton(ev', "send_all", q)) => NothingDone]_vars

\* q1 has just been sent to the course members 2 and 3, both sends arrived,
\* and q1 is now processed
C33_Witness ==
    /\ IsButton(ev, "send_all", "q1")
    /\ ev.in_course_users = {2, 3}
    /\ Len(SendsOf(log)) = 2
    /\ \A e \in Range(SendsOf(log)) : e.msg = "broadcast"
    /\ Processed(quizzes, "q1")

(***************************************************************************)
(* C34  Hidden toggle frame                                                *)
(***************************************************************************)
\* C34: a toggle_hidden pressed by an admin for a quiz of the repository,
\* with the write succeeding, inverts the hidden flag of that quiz and
\* nothing else: the quiz keeps its id, question, answer, processed flag and
\* place, every other quiz, every session and every user's progress are
\* unchanged; and the same button pressed again on the new repository gives
\* back the old one.
C34_ToggleHiddenFrame ==
    [][\A q \in AllIds :
          (IsButton(ev', "toggle_hidden", q) /\ q \in Ids(quizzes) /\ ev'.disk_ok) =>
              /\ Len(quizzes') = Len(quizzes)
              /\ \A i \in 1..Len(quizzes) :
                    quizzes'[i] = IF quizzes[i].id = q
                                  THEN [quizzes[i] EXCEPT !.hidden = ~quizzes[i].hidden]
                                  ELSE quizzes[i]
              /\ wizard' = wizard
              /\ quiz_state' = quiz_state
              /\ CbToggleHidden(ev', quizzes', FindQuiz(quizzes', q)).quizzes = quizzes]_vars

\* admin 2 has just hidden q1, which is processed and is the active quiz of
\* student 3, while admin 1 is in a wizard session
C34_Witness ==
    /\ IsButton(ev, "toggle_hidden", "q1")
    /\ Hidden(quizzes, "q1")
    /\ Processed(quizzes, "q1")
    /\ ActiveOf(quiz_state, 3) = "q1"
    /\ HasSession(1)

(***************************************************************************)
(* C35  Repeated /skip only alternates                                     *)
(***************************************************************************)
\* the ids of the visible quizzes u has not solved, in list order
OpenIds(qs, st, u) ==
    SelectSeq(IdSeq(qs), LAMBDA q : q \in ShownIds(qs) /\ ~Solved(st, u, q))

\* C35: when a user with an active quiz and three or more unsolved visible
\* quizzes sends /skip in the private chat, the new active quiz is the
\* second unsolved quiz of the list if the first one was active and the first
\* one otherwise, and the list of unsolved visible quizzes is the same
\* afterwards; so repeated /skip alternates between the first two and never
\* selects a later one.
C35_SkipAlternates ==
    [][\A u \in Users :
          LET open == OpenIds(quizzes, quiz_state, u)
              a == ActiveOf(quiz_state, u)
          IN  (IsCmd(ev', u, "/skip") /\ a # Null /\ Len(open) >= 3) =>
                  /\ ActiveOf(quiz_state', u) = (IF a = open[1] THEN open[2] ELSE open[1])
                  /\ OpenIds(quizzes', quiz_state', u) = open]_vars

\* with q1, q2 and q3 all visible and unsolved the student has just skipped
\* from q2 back to q1; q3 is not offered
C35_Witness ==
    /\ IsCmd(ev, 3, "/skip")
    /\ OpenIds(quizzes, quiz_state, 3) = <<"q1", "q2", "q3">>
    /\ AttemptCount(quiz_state, 3, "q2") = 1
    /\ ActiveOf(quiz_state, 3) = "q1"
    /\ \E e \in Range(log) : e.k = "send" /\ e.msg = "question" /\ e.q = "q1"

(***************************************************************************)
(* C36  Wizard commit retry after save failure                             *)
(***************************************************************************)
\* the repository after the commit of session sess with the given answer
Committed(qs, sess, answer) ==
    IF sess.mode = "create"
    THEN Append(qs, [id |-> sess.quiz_id, question |-> sess.question,
                     answer |-> answer, processed |-> FALSE, hidden |-> FALSE])
    ELSE [i \in 1..Len(qs) |->
             IF qs[i].id = sess.quiz_id
             THEN [qs[i] EXCEPT !.question = sess.question, !.answer = answer]
             ELSE qs[i]]

\* C36: when an admin answers a create session whose id is free, or an edit
\* session whose quiz exists, and the write of the repository fails, the
\* repository is unchanged, the admin is sent the could-not-save message and
\* nothing else, and every session, the admin's with its staged question
\* included, is as before; the same answer sent again with the disk working
\* then makes the commit and ends the session.
C36_CommitRetry ==
    [][\A u \in AdminUsers :
          LET sess == wizard[u]
              retry == handle_quiz_wizard([ev' EXCEPT !.disk_ok = TRUE])
          IN  (/\ sess.stage = "await_answer"
               /\ IsText(ev', u) /\ Trim(ev'.text) # <<>> /\ ~ev'.disk_ok
               /\ (sess.mode = "create") = (sess.quiz_id \notin Ids(quizzes))) =>
                  /\ quizzes' = quizzes
                  /\ quiz_state' = quiz_state
                  /\ wizard' = wizard
                  /\ WriteFailed(log')
                  /\ Len(SendsOf(log')) = 1
                  /\ SendsOf(log')[1].to = u
                  /\ SendsOf(log')[1].msg = "save_failed"
                  /\ retry.quizzes = Committed(quizzes', wizard'[u], Trim(ev'.text))
                  /\ retry.wizard[u] = NoSession]_vars

\* the write of the create commit of q3 has just failed: q3 is not in the
\* repository and admin 1 is still asked for the answer to "Paris"
C36_Witness ==
    /\ IsText(ev, 1)
    /\ ~ev.disk_ok
    /\ WriteFailed(log)
    /\ \E e \in Range(log) : e.k = "send" /\ e.msg = "save_failed"
    /\ "q3" \notin Ids(quizzes)
    /\ wizard[1] = Session("await_answer", "q3", "create", T_Paris)

(***************************************************************************)
(* C37  Broadcast effect on progress                                       *)
(***************************************************************************)
\* the users the broadcast ctx is sent to, and those it reaches
Recipients(ctx) == IF ctx.cmd = "send_admins" THEN AdminUsers ELSE ctx.in_course_users
Reached(ctx)    == Recipients(ctx) \cap ctx.delivered

\* ctx is a broadcast of quiz q that is carried out: pressed by an admin for
\* a quiz that is not hidden, and for send_all not processed and with the
\* course chat configured
IsBroadcast(ctx, q) ==
    /\ IsButton(ctx, "send_all", q) \/ IsButton(ctx, "send_admins", q)
    /\ q \in ShownIds(quizzes)
    /\ ctx.cmd = "send_all" => (ctx.course_chat /\ ~Processed(quizzes, q))

\* C37: a broadcast of quiz X that is carried out, the progress write
\* succeeding, sets active_quiz_id to X for exactly the recipients the send
\* reached, whatever quiz they had in progress and whether or not they have
\* solved X; every other user keeps the active quiz they had; no user's
\* results or answers change.
C37_BroadcastProgress ==
    [][\A q \in AllIds :
          (IsBroadcast(ev', q) /\ ev'.disk_ok) =>
              \A u \in Users :
                  /\ ActiveOf(quiz_state', u) =
                        (IF u \in Reached(ev') THEN q ELSE ActiveOf(quiz_state, u))
                  /\ ResultsOf(quiz_state', u) = ResultsOf(quiz_state, u)
                  /\ \A p \in AllIds :
                        AnswersOf(quiz_state', u, p) = AnswersOf(quiz_state, u, p)]_vars

\* q1 has just been sent to the course members 2 and 3 and reached only
\* student 3, who has solved q1: q1 is the active quiz of the student
\* again, and admin 2 has no active quiz
C37_Witness ==
    /\ IsButton(ev, "send_all", "q1")
    /\ ev.in_course_users = {2, 3}
    /\ ev.delivered = {3}
    /\ Solved(quiz_state, 3, "q1")
    /\ ActiveOf(quiz_state, 3) = "q1"
    /\ ActiveOf(quiz_state, 2) = Null
    /\ \E e \in Range(log) : e.k = "send" /\ e.msg = "broadcast_failed" /\ e.to = 2

(***************************************************************************)
(* C38  Progression terminates                                             *)
(***************************************************************************)
\* the number of visible quizzes u has not solved
OpenCount(qs, st, u) == Len(OpenIds(qs, st, u))

\* u is in the all-complete state
AllComplete(u) ==
    /\ u \in DOMAIN quiz_state
    /\ ActiveOf(quiz_state, u) = Null
    /\ OpenCount(quizzes, quiz_state, u) = 0

\* C38: on a fixed quiz list, without /quiz_ask and broadcasts, the number of
\* visible quizzes the student has not solved never goes up and goes down by
\* exactly one in every step with a submission graded correct; once the
\* student has an active quiz, and submissions graded correct keep coming,
\* the student reaches the all-complete state (no active quiz, every visible
\* quiz correct); and in that state a bare text changes no state and sends
\* nothing.
C38_ProgressionTerminates ==
    /\ [][ /\ quizzes' = quizzes
           /\ OpenCount(quizzes', quiz_state', 3) <= OpenCount(quizzes, quiz_state, 3)
           /\ (IsText(ev', 3) /\ JudgedCorrect(log')) =>
                 OpenCount(quizzes', quiz_state', 3) = OpenCount(quizzes, quiz_state, 3) - 1
           /\ (AllComplete(3) /\ IsText(ev', 3)) =>
                 /\ quiz_state' = quiz_state
                 /\ wizard' = wizard
                 /\ log' = <<>> ]_vars
    /\ (ActiveOf(quiz_state, 3) # Null) ~> AllComplete(3)

\* the student has solved q1 and q3, q2 is hidden, no quiz is active, and a
\* further text has just been ignored
C38_Witness ==
    /\ IsText(ev, 3)
    /\ log = <<>>
    /\ AllComplete(3)
    /\ Solved(quiz_state, 3, "q1") /\ Solved(quiz_state, 3, "q3")
    /\ "q2" \notin ShownIds(quizzes)

(***************************************************************************)
(* C39  Backup never sees a torn document: with the backup job running at  *)
(* any point relative to a save, the copy of a store file it has made when *)
(* it closes the file is a complete document, the one the path held when   *)
(* the job opened it (before the save) or the one it holds now (after the  *)
(* save); and no step of the backup job creates, removes or changes a      *)
(* store file or its temp file.                                            *)
(***************************************************************************)
StoreFiles(fs) ==
    [p \in {q \in DOMAIN fs : q # ZipPath} |-> fs[p]]

C39_BackupNeverTorn ==
    [][/\ (loop.pc = "read" /\ loop'.pc = "next") =>
            /\ \E v \in BackupVersions : loop.got = Bytes(Raw(v))
            /\ \/ loop.got = Bytes(loop.opened)
               \/ loop.got = Bytes(files[PathOf(BackupOrder[loop.k])])
       /\ (save' = save) => StoreFiles(files') = StoreFiles(files)]_vars

\* the job has copied the whole of the document it opened, the path has been
\* renamed over since and the next save of that store is being written
C39_Witness ==
    /\ loop.pc = "read"
    /\ loop.detached
    /\ loop.got = Bytes(loop.held)
    /\ loop.got # Bytes(files[PathOf(BackupOrder[loop.k])])
    /\ save.pc = "write"
    /\ save.store = BackupOrder[loop.k]

(***************************************************************************)
(* C40  At-most-once handling per update: the poll offset never decreases; *)
(* when a handler is called for an update the offset is already past that  *)
(* update, and the update had not been handled before, so an update whose  *)
(* handler raised is never handled again; a poll returns nothing that was  *)
(* handled; and each update that was behind a raising update in its batch  *)
(* is fetched again and handled, once.                                     *)
(***************************************************************************)
HandledIds(l) == {l.handled[i] : i \in 1..Len(l.handled)}

HandledOnce(l) ==
    \A i, j \in 1..Len(l.handled) : l.handled[i] = l.handled[j] => i = j

C40_AtMostOnce ==
    /\ [][/\ loop'.offset >= loop.offset
          /\ loop'.handled # loop.handled =>
                \E id \in 1..MaxUpdates :
                    /\ loop'.handled = Append(loop.handled, id)
                    /\ id \notin HandledIds(loop)
                    /\ loop'.offset > id
          /\ (loop.pc = "poll" /\ loop'.batch # <<>>) =>
                /\ loop'.batch[1] >= loop.offset
                /\ HandledIds(loop) \cap {loop'.batch[i] : i \in 1..Len(loop'.batch)} = {}
          /\ loop'.dropped # loop.dropped =>
                /\ loop.pc = "call" /\ loop'.pc = "poll"
                /\ loop'.dropped \cap HandledIds(loop') = {}
          /\ HandledOnce(loop')]_vars
    /\ \A id \in 1..MaxUpdates : (id \in loop.dropped) ~> (id \in HandledIds(loop))

\* the handler of update 1 raised with updates 2 and 3 behind it in the
\* batch; they were fetched again and the handler of 2 is running
C40_Witness ==
    /\ loop.dropped = {2, 3}
    /\ loop.handled = <<1, 2>>
    /\ loop.offset = 3
    /\ loop.pc = "call"
    /\ loop.batch = <<2, 3>>

====
